---------------------------- MODULE Spec2Model ----------------------------
(***************************************************************************)
(* Model of go-at2plus: the AirTouch 2+ packet codec (protocol.go) and the *)
(* request/response client (client.go).                                    *)
(*                                                                         *)
(* Bytes are integers 0..255, byte slices are sequences (1-based, so Go's  *)
(* data[i] is data[i+1] here), uint16 arithmetic is taken modulo 65536.    *)
(***************************************************************************)
EXTENDS Integers, Sequences, FiniteSets, TLC

(***************************************************************************)
(* Protocol constants (protocol.go, const block).                          *)
(***************************************************************************)
HeaderBytes == 21845            \* 0x5555
AddressSendStandard == 32944    \* 0x80b0
AddressSendExtended == 37040    \* 0x90b0
AddressRecvStandard == 45184    \* 0xb080
AddressRecvExtended == 45200    \* 0xb090
MsgTypeControlStatus == 192     \* 0xC0
MsgTypeExtended == 31           \* 0x1F
MaxDataLen == 1024
SubMsgTypeGroupControl == 32    \* 0x20
SubMsgTypeGroupStatus == 33     \* 0x21
SubMsgTypeACControl == 34       \* 0x22
SubMsgTypeACStatus == 35        \* 0x23
ExtMsgTypeACAbility == 17       \* 0x11
ExtMsgTypeGroupName == 18       \* 0x12

Uint16Mod == 65536              \* number of values of a Go uint16
CrcSeed == 65535                \* 0xFFFF
CrcPoly == 40961                \* 0xA001

(***************************************************************************)
(* Bounds of the codec harness.                                            *)
(***************************************************************************)
MaxPayloadLen == 2              \* longest enumerated small payload
TamperSpan == 12                \* buffer positions a tamper may hit
MaxRecords == 2                 \* records in one message of the harness

(***************************************************************************)
(* Client configuration and the bounds of the client model.                *)
(*                                                                         *)
(* nextMsgID is a uint8: it counts modulo 256.  The model counts modulo    *)
(* IdSpace, a scaled-down id space, so that a full turn of the counter     *)
(* (the wrap onto an id used before) is within reach of the search; a run  *)
(* issues at most MaxCalls == IdSpace + 1 requests, one more than ids.     *)
(* Time is counted in seconds: requestTimeout is the default 2 seconds.    *)
(***************************************************************************)
RequestTimeout == 2
IdSpace == 2                    \* values of the message id (256 in the source)
NCallers == 2                   \* goroutines calling sendRequest
NClosers == 1                   \* goroutines calling Close
MaxCloseCalls == 2              \* Close calls made by those goroutines
MaxCalls == IdSpace + 1
MaxCallsClosing == 2            \* sendRequest calls in the runs with Close
MaxCallsReading == 2            \* sendRequest calls in the runs with cut frames
MaxCallsInbound == 2            \* sendRequest calls in the runs with bad frames
MaxCallsWriting == 3            \* sendRequest calls in the runs with slow writes
MaxCallsStopping == 2           \* sendRequest calls in the runs that stop the reader
MaxCallsCtx == 2                \* calls of the sendRequest that takes a context
NTargets == 3                   \* addresses Discover scans (254 for each subnet)
MaxApiCalls == 2                \* requests sent in the runs of the API methods

Callers == 1..NCallers
Closers == (NCallers + 1)..(NCallers + NClosers)
Reader == 0
Free == -1                      \* a mutex nobody holds

(***************************************************************************)
(* Bit operations on naturals.                                             *)
(***************************************************************************)
RECURSIVE XorBits(_, _)
XorBits(a, b) ==
    IF a = 0 THEN b
    ELSE IF b = 0 THEN a
    ELSE (((a % 2) + (b % 2)) % 2) + 2 * XorBits(a \div 2, b \div 2)

\* a ^ b, four bits at a time through a table of the 4-bit results.
XorNibble == [a \in 0..15 |-> [b \in 0..15 |-> XorBits(a, b)]]

RECURSIVE Xor(_, _)
Xor(a, b) ==
    IF a = 0 THEN b
    ELSE IF b = 0 THEN a
    ELSE XorNibble[a % 16][b % 16] + 16 * Xor(a \div 16, b \div 16)

Min(a, b) == IF a < b THEN a ELSE b

\* a & b and a | b, from a + b = (a ^ b) + 2 * (a & b).
And(a, b) == (a + b - Xor(a, b)) \div 2
Or(a, b) == Xor(a, b) + And(a, b)

\* The conversion uint8(v) of a Go int: the low eight bits, two's complement.
Uint8(v) == v % 256

\* binary.BigEndian.PutUint16 / Uint16.  PutUint16LE is the little-endian
\* order, which the codec must not use.
PutUint16LE(v) == <<v % 256, (v \div 256) % 256>>
PutUint16(v) == <<(v \div 256) % 256, v % 256>>
Uint16At(data, off) == data[off + 1] * 256 + data[off + 2]

(***************************************************************************)
(* Checksum: CRC16, seed 0xFFFF, polynomial 0xA001.                        *)
(***************************************************************************)
RECURSIVE CrcBits(_, _)
CrcBits(crc, i) ==
    IF i = 8 THEN crc
    ELSE IF crc % 2 # 0
         THEN CrcBits(Xor(crc \div 2, CrcPoly), i + 1)
         ELSE CrcBits(crc \div 2, i + 1)

\* The loop over data[lo..hi], left to right; the recursion halves the range
\* only to keep the evaluation shallow, the bytes are folded in order.  crc is
\* a uint16 and never negative: the test on it makes the evaluation strict.
RECURSIVE CrcRange(_, _, _, _)
CrcRange(crc, data, lo, hi) ==
    IF lo > hi \/ crc < 0 THEN crc
    ELSE IF lo = hi THEN CrcBits(Xor(crc, data[lo]), 0)
    ELSE LET mid == (lo + hi) \div 2
         IN  CrcRange(CrcRange(crc, data, lo, mid), data, mid + 1, hi)

\* ChecksumZeroSeed is the same loop started from 0 instead of 0xFFFF.
ChecksumZeroSeed(data) == CrcRange(0, data, 1, Len(data))
Checksum(data) == CrcRange(CrcSeed, data, 1, Len(data))

(***************************************************************************)
(* Packet, NewPacket, Encode, Decode.                                      *)
(***************************************************************************)
NewPacket(address, id, typ, data) ==
    [Header |-> HeaderBytes, Address |-> address, MsgID |-> id,
     MsgType |-> typ, DataLen |-> Len(data) % Uint16Mod, Data |-> data,
     CRC |-> 0]

\* The bytes Encode checksums: buf[2 : 8+len(p.Data)].
EncodeCrcData(p) ==
    PutUint16(p.Address) \o <<p.MsgID, p.MsgType>> \o PutUint16(p.DataLen)
        \o p.Data

\* EncodeCrcWithMagic is an Encode that checksums the magic bytes as well.
EncodeCrcWithMagic(p) ==
    LET crc == Checksum(PutUint16(p.Header) \o EncodeCrcData(p))
    IN  [buf |-> PutUint16(p.Header) \o EncodeCrcData(p) \o PutUint16(crc),
         p   |-> [p EXCEPT !.CRC = crc]]

\* Encode returns the buffer and, through its pointer receiver, sets p.CRC.
Encode(p) ==
    LET crc == Checksum(EncodeCrcData(p))
    IN  [buf |-> PutUint16(p.Header) \o EncodeCrcData(p) \o PutUint16(crc),
         p   |-> [p EXCEPT !.CRC = crc]]

NoPacket == [none |-> TRUE]

DecodeError(kind) == [pkt |-> NoPacket, err |-> kind, expected |-> 0, got |-> 0]

\* if crcReceived != crcCalculated { return nil, ErrInvalidChecksum... }
\* CrcIgnored is a Decode that does not compare the two.
CrcIgnored(crcReceived, crcCalculated) == TRUE
CrcMatches(crcReceived, crcCalculated) == crcReceived = crcCalculated

\* Decode's length test, len(data) < int(8+dataLen+2), evaluated in uint16.
DecodeTotal(dataLen) == (8 + dataLen + 2) % Uint16Mod

Decode(data) ==
    IF Len(data) < 10 THEN DecodeError("ErrInvalidLength")
    ELSE IF Uint16At(data, 0) # HeaderBytes THEN DecodeError("ErrInvalidHeader")
    ELSE
      LET address == Uint16At(data, 2)
          id      == data[5]
          typ     == data[6]
          dataLen == Uint16At(data, 6)
          hi      == (8 + dataLen) % Uint16Mod      \* uint16 8+dataLen
      IN  IF Len(data) < DecodeTotal(dataLen) THEN DecodeError("ErrInvalidLength")
          \* data[8:8+dataLen]: slice bounds out of range
          ELSE IF hi < 8 \/ hi > Len(data) THEN DecodeError("panic")
          \* binary.BigEndian.Uint16(data[8+dataLen:]): index out of range
          ELSE IF Len(data) - hi < 2 THEN DecodeError("panic")
          ELSE
            LET crcReceived   == Uint16At(data, hi)
                crcCalculated == Checksum(SubSeq(data, 3, hi))
            IN  IF ~CrcMatches(crcReceived, crcCalculated)
                THEN [pkt |-> NoPacket, err |-> "ErrInvalidChecksum",
                      expected |-> crcCalculated, got |-> crcReceived]
                ELSE [pkt |-> [Header |-> Uint16At(data, 0), Address |-> address,
                               MsgID |-> id, MsgType |-> typ,
                               DataLen |-> dataLen,
                               Data |-> SubSeq(data, 9, hi),
                               CRC |-> crcReceived],
                      err |-> "nil", expected |-> 0, got |-> 0]

(***************************************************************************)
(* The frames the client and the device exchange in this model, encoded    *)
(* and decoded once: EncodeCached and DecodeCached are Encode and Decode,  *)
(* looked up in a table for these frames and computed for any other.       *)
(***************************************************************************)
FrameAddresses ==
    <<AddressSendStandard, AddressSendExtended, AddressRecvStandard,
      AddressRecvExtended>>
FrameTypes == <<MsgTypeControlStatus, MsgTypeExtended>>
IndexOf(seq, v) ==
    IF \E k \in 1..Len(seq) : seq[k] = v
    THEN CHOOSE k \in 1..Len(seq) : seq[k] = v
    ELSE 0

FrameKey(a, t, i, n) ==
    (((a - 1) * Len(FrameTypes) + (t - 1)) * IdSpace + i) * MaxCalls + n
FrameKeys == 1..(Len(FrameAddresses) * Len(FrameTypes) * IdSpace * MaxCalls)
FrameOfKey(k) ==
    LET n == ((k - 1) % MaxCalls) + 1
        r == (k - 1) \div MaxCalls
        i == r % IdSpace
        s == r \div IdSpace
        t == (s % Len(FrameTypes)) + 1
        a == (s \div Len(FrameTypes)) + 1
    IN  NewPacket(FrameAddresses[a], i, FrameTypes[t], <<n>>)

EncodeTable == [k \in FrameKeys |-> Encode(FrameOfKey(k))] @@ <<>>
DecodeTable == [k \in FrameKeys |-> Decode(EncodeTable[k].buf)] @@ <<>>

EncodeCached(q) ==
    LET a == IndexOf(FrameAddresses, q.Address)
        t == IndexOf(FrameTypes, q.MsgType)
    IN  IF /\ a > 0 /\ t > 0 /\ q.MsgID \in 0..(IdSpace - 1)
           /\ Len(q.Data) = 1 /\ q.Data[1] \in 1..MaxCalls
           /\ q = FrameOfKey(FrameKey(a, t, q.MsgID, q.Data[1]))
        THEN EncodeTable[FrameKey(a, t, q.MsgID, q.Data[1])]
        ELSE Encode(q)

\* The answers with a payload of MaxDataLen bytes, one for each message
\* id and type, encoded and decoded once as well.
MaxLenData == [k \in 1..MaxDataLen |-> 33]
MaxLenKeys == 1..(IdSpace * Len(FrameTypes))
MaxLenKey(i, typ) == i * Len(FrameTypes) + IndexOf(FrameTypes, typ)
MaxLenFrame(k) ==
    LET typ == FrameTypes[((k - 1) % Len(FrameTypes)) + 1]
    IN  NewPacket(IF typ = MsgTypeExtended THEN AddressRecvExtended
                  ELSE AddressRecvStandard,
                  (k - 1) \div Len(FrameTypes), typ, MaxLenData)
MaxLenTable == [k \in MaxLenKeys |-> Encode(MaxLenFrame(k))] @@ <<>>
MaxLenDecoded == [k \in MaxLenKeys |-> Decode(MaxLenTable[k].buf)] @@ <<>>

DecodeCached(b) ==
    IF Len(b) = MaxDataLen + 10
    THEN IF /\ b[5] \in 0..(IdSpace - 1) /\ IndexOf(FrameTypes, b[6]) > 0
            /\ b = MaxLenTable[MaxLenKey(b[5], b[6])].buf
         THEN MaxLenDecoded[MaxLenKey(b[5], b[6])]
         ELSE Decode(b)
    ELSE IF Len(b) # 11 THEN Decode(b)
    ELSE LET a == IndexOf(FrameAddresses, Uint16At(b, 2))
             t == IndexOf(FrameTypes, b[6])
         IN  IF /\ a > 0 /\ t > 0 /\ b[5] \in 0..(IdSpace - 1)
                /\ b[9] \in 1..MaxCalls
                /\ b = EncodeTable[FrameKey(a, t, b[5], b[9])].buf
             THEN DecodeTable[FrameKey(a, t, b[5], b[9])]
             ELSE Decode(b)

(***************************************************************************)
(* Messages (messages.go).  A slice of structs is a sequence of records.   *)
(* An optional field (pointer to int) is Nil or Ptr(v); an error is its    *)
(* name, "nil" for none; a nil slice is the empty sequence.                *)
(***************************************************************************)
Nil == <<>>
Ptr(v) == <<v>>
Deref(ptr) == ptr[1]

\* The GroupControl that turns group n off.
GroupOff(n) == [GroupNumber |-> n, Power |-> Ptr(1), Value |-> Nil,
                Percent |-> Nil]

\* The check of MarshalGroupControl on a record's group number.
\* GroupNumberUnchecked is the encoder without that check.
GroupNumberUnchecked(g) == FALSE
GroupNumberInvalid(g) == g.GroupNumber > 15

\* switch *g.Value: 0 -> 2 (decrease), 1 -> 3 (increase), 2 -> 4 (set).
GroupValueCode(v) ==
    IF v = 0 THEN 2 ELSE IF v = 1 THEN 3 ELSE IF v = 2 THEN 4 ELSE 0

\* switch *g.Power: 0 -> 1 (next), 1 -> 2 (off), 2 -> 3 (on), 3 -> 5 (turbo).
\* GroupPowerCodeLinear counts on from 1, which gives turbo the code 4.
GroupPowerCodeLinear(v) == IF v \in 0..3 THEN v + 1 ELSE 0
GroupPowerCode(v) ==
    IF v = 0 THEN 1 ELSE IF v = 1 THEN 2 ELSE IF v = 2 THEN 3
    ELSE IF v = 3 THEN 5 ELSE 0

\* The four bytes MarshalGroupControl writes for one record.
GroupControlRecord(g) ==
    LET valueBits == IF g.Value = Nil THEN 0
                     ELSE Uint8(GroupValueCode(Deref(g.Value)) * 32)
        powerBits == IF g.Power = Nil THEN 0
                     ELSE Uint8(GroupPowerCode(Deref(g.Power)))
        percent == IF g.Percent = Nil THEN 0 ELSE Uint8(Deref(g.Percent))
    IN  <<g.GroupNumber, Or(valueBits, powerBits), percent, 0>>

RECURSIVE Concat(_)
Concat(seqs) == IF seqs = <<>> THEN <<>> ELSE Head(seqs) \o Concat(Tail(seqs))

\* The 8-byte header of the control and status messages.
RepeatHeader(subType, count, repeatLen) ==
    <<subType, 0, 0, 0>> \o PutUint16(count % Uint16Mod)
                         \o PutUint16(repeatLen)

MarshalGroupControl(groups) ==
    IF \E i \in 1..Len(groups) : GroupNumberInvalid(groups[i])
    THEN [buf |-> <<>>, err |-> "invalid group number"]
    ELSE [buf |-> RepeatHeader(SubMsgTypeGroupControl, Len(groups), 4)
                  \o Concat([i \in 1..Len(groups) |->
                               GroupControlRecord(groups[i])]),
          err |-> "nil"]

\* What a decoder returns: the records and the error, (nil, err) on an
\* error.  "panic" stands for a run-time panic (index or slice bounds out of
\* range), after which nothing is returned.
MsgOk(records) == [out |-> records, err |-> "nil"]
MsgFail(kind) == [out |-> <<>>, err |-> kind]

\* data[lo:hi] of Go for 0 <= lo <= hi <= len(data).
Slice(data, lo, hi) == SubSeq(data, lo + 1, hi)

\* chunk[k] for every k of ks is within len(chunk).
Indexable(chunk, ks) == \A k \in ks : k < Len(chunk)

\* Go's x / y for y > 0: the quotient truncated toward zero.  FloorDiv rounds
\* toward minus infinity instead.
FloorDiv(x, y) == x \div y
Quot(x, y) == IF x >= 0 THEN x \div y ELSE -((-x) \div y)

\* GroupStatusLowBits reads power from the low end of byte 1 and spill from
\* bit 1 of byte 7.
GroupStatusLowBits(chunk) ==
    [GroupNumber |-> chunk[1] \div 4,
     Power |-> And(chunk[1], 3),
     Percent |-> And(chunk[2], 127),
     TurboSupport |-> And(chunk[7], 128) # 0,
     Spill |-> And(chunk[7], 1) # 0]

\* The GroupStatus of one chunk (messages.go 141-159).
GroupStatusOf(chunk) ==
    [GroupNumber |-> And(chunk[1], 63),
     Power |-> And(chunk[1] \div 64, 3),
     Percent |-> And(chunk[2], 127),
     TurboSupport |-> And(chunk[7], 128) # 0,
     Spill |-> And(chunk[7], 2) # 0]

\* chunk := data[offset : offset+repeatLen] of record i (1, 2, ...) in
\* UnmarshalGroupStatus and UnmarshalACStatus, where offset is 8 + (i-1) *
\* repeatLen.
ChunkAt(data, i, repeatLen) ==
    Slice(data, 8 + (i - 1) * repeatLen, 8 + i * repeatLen)

\* The loop over count chunks panics at its first chunk when the chunk is
\* shorter than an index the loop body reads.
ChunkPanics(data, count, repeatLen, indices) ==
    count > 0 /\ ~Indexable(ChunkAt(data, 1, repeatLen), indices)

UnmarshalGroupStatus(data) ==
    IF Len(data) < 8 THEN MsgFail("ErrInvalidLength")
    ELSE IF data[1] # SubMsgTypeGroupStatus THEN MsgFail("invalid sub type")
    ELSE LET count == Uint16At(data, 4)
             repeatLen == Uint16At(data, 6)
         IN  IF Len(data) < 8 + count * repeatLen
             THEN MsgFail("ErrInvalidLength")
             ELSE IF ChunkPanics(data, count, repeatLen, {0, 1, 6})
             THEN MsgFail("panic")
             ELSE MsgOk([i \in 1..count |->
                           GroupStatusOf(ChunkAt(data, i, repeatLen))])

\* The ACStatus of one chunk (messages.go 255-291).
ACStatusOf(chunk) ==
    [ACNumber |-> And(chunk[1], 15),
     Power |-> And(chunk[1] \div 16, 15),
     Mode |-> And(chunk[2] \div 16, 15),
     FanSpeed |-> And(chunk[2], 15),
     Setpoint |-> Quot(chunk[3] + 100, 10),
     Temperature |-> Quot(Uint16At(chunk, 4) - 500, 10),
     Turbo |-> And(chunk[4], 16) # 0,
     Bypass |-> And(chunk[4], 8) # 0,
     Spill |-> And(chunk[4], 4) # 0,
     Timer |-> And(chunk[4], 2) # 0,
     ErrorCode |-> chunk[7]]

UnmarshalACStatus(data) ==
    IF Len(data) < 8 THEN MsgFail("ErrInvalidLength")
    ELSE IF data[1] # SubMsgTypeACStatus THEN MsgFail("invalid sub type")
    ELSE LET count == Uint16At(data, 4)
             repeatLen == Uint16At(data, 6)
         IN  IF Len(data) < 8 + count * repeatLen
             THEN MsgFail("ErrInvalidLength")
             ELSE IF ChunkPanics(data, count, repeatLen, 0..6)
             THEN MsgFail("panic")
             ELSE MsgOk([i \in 1..count |->
                           ACStatusOf(ChunkAt(data, i, repeatLen))])

\* switch *ac.Power: 1..5 stand for themselves, any other value for 0.
ACPowerCode(v) == IF v \in 1..5 THEN v ELSE 0

\* b2 |= uint8(*ac.FanSpeed): all eight low bits of the value.
FanSpeedBits(v) == Uint8(v)

\* val := (*ac.Setpoint * 10) - 100, the inverse of the status rule
\* (raw + 100) / 10.  SetpointUnscaled leaves out the factor 10.
SetpointUnscaled(v) == v - 10
SetpointRaw(v) == v * 10 - 100

\* The four bytes MarshalACControl writes for one record.
ACControlRecord(ac) ==
    LET powerBits == IF ac.Power = Nil THEN 0
                     ELSE Uint8(ACPowerCode(Deref(ac.Power)) * 16)
        modeBits == IF ac.Mode = Nil THEN 0 ELSE Uint8(Deref(ac.Mode) * 16)
        fanBits == IF ac.FanSpeed = Nil THEN 0
                   ELSE FanSpeedBits(Deref(ac.FanSpeed))
        raw == IF ac.Setpoint = Nil THEN 0
               ELSE SetpointRaw(Deref(ac.Setpoint))
    IN  <<Or(powerBits, And(ac.ACNumber, 15)), Or(modeBits, fanBits)>>
        \o (IF ac.Setpoint = Nil THEN <<0, 0>>
            ELSE <<64, Uint8(IF raw < 0 THEN 0 ELSE raw)>>)

MarshalACControl(acs) ==
    [buf |-> RepeatHeader(SubMsgTypeACControl, Len(acs), 4)
             \o Concat([i \in 1..Len(acs) |-> ACControlRecord(acs[i])]),
     err |-> "nil"]

\* The name in nameBytes: the bytes before the first NUL, all if there is none.
\* NameKeepAll does not stop at a NUL.
NameKeepAll(nameBytes) == nameBytes
RECURSIVE NameOf(_)
NameOf(nameBytes) ==
    IF nameBytes = <<>> \/ Head(nameBytes) = 0 THEN <<>>
    ELSE <<Head(nameBytes)>> \o NameOf(Tail(nameBytes))

\* The ACAbility of the block of AC acNum; name is read from the 16 bytes at
\* the start of the block, the other fields from chunk[16] to chunk[23].
ACAbilityOf(acNum, nameBytes, chunk) ==
    [ACNumber |-> acNum,
     Name |-> NameOf(nameBytes),
     StartGroup |-> chunk[17],
     GroupCount |-> chunk[18],
     CoolMode |-> And(chunk[19], 32) # 0,
     FanMode |-> And(chunk[19], 16) # 0,
     DryMode |-> And(chunk[19], 8) # 0,
     HeatMode |-> And(chunk[19], 4) # 0,
     AutoMode |-> And(chunk[19], 2) # 0,
     FanTurbo |-> And(chunk[20], 128) # 0,
     FanPowerful |-> And(chunk[20], 64) # 0,
     FanHigh |-> And(chunk[20], 32) # 0,
     FanMed |-> And(chunk[20], 16) # 0,
     FanLow |-> And(chunk[20], 8) # 0,
     FanQuiet |-> And(chunk[20], 4) # 0,
     FanAuto |-> And(chunk[20], 2) # 0,
     MinCoolSet |-> chunk[21],
     MaxCoolSet |-> chunk[22],
     MinHeatSet |-> chunk[23],
     MaxHeatSet |-> chunk[24]]

\* The loop of UnmarshalACAbility from offset, abilities decoded so far.
\* chunk[0:16] may extend past len(chunk) up to the end of data (the
\* capacity of chunk) and panics beyond it; chunk[16]..chunk[23] panic
\* beyond len(chunk).
RECURSIVE ACAbilityLoop(_, _, _)
ACAbilityLoop(data, offset, abilities) ==
    IF offset >= Len(data) \/ offset + 4 > Len(data) THEN MsgOk(abilities)
    ELSE IF offset = 0 /\ (data[1] # 255 \/ data[2] # 17)
    THEN MsgFail("invalid header")
    ELSE LET o == IF offset = 0 THEN 2 ELSE offset
         IN  IF o + 2 > Len(data) THEN MsgOk(abilities)
             ELSE LET acNum == data[o + 1]
                      length == data[o + 2]
                      chunk == Slice(data, o + 2, o + 2 + length)
                  IN  IF o + 2 + length > Len(data)
                      THEN MsgFail("ErrInvalidLength")
                      ELSE IF 16 > Len(data) - (o + 2) THEN MsgFail("panic")
                      ELSE IF ~Indexable(chunk, 16..23) THEN MsgFail("panic")
                      ELSE ACAbilityLoop(data, o + 2 + length,
                               Append(abilities,
                                      ACAbilityOf(acNum,
                                                  Slice(data, o + 2, o + 18),
                                                  chunk)))

UnmarshalACAbility(data) ==
    IF Len(data) < 4 THEN MsgFail("ErrInvalidLength")
    ELSE IF data[1] # 255 \/ data[2] # ExtMsgTypeACAbility
    THEN MsgFail("invalid ac ability header")
    ELSE ACAbilityLoop(data, 0, <<>>)

\* The loop of UnmarshalGroupName from offset, names decoded so far.
RECURSIVE GroupNameLoop(_, _, _)
GroupNameLoop(data, offset, names) ==
    IF offset >= Len(data) \/ offset + 9 > Len(data) THEN MsgOk(names)
    ELSE GroupNameLoop(data, offset + 9,
             Append(names,
                    [GroupNumber |-> data[offset + 1],
                     Name |-> NameOf(Slice(data, offset + 1, offset + 9))]))

UnmarshalGroupName(data) ==
    IF Len(data) < 2 THEN MsgFail("ErrInvalidLength")
    ELSE IF data[1] # 255 \/ data[2] # ExtMsgTypeGroupName
    THEN MsgFail("invalid group name header")
    ELSE GroupNameLoop(data, 2, <<>>)

(***************************************************************************)
(* Options (options.go).  A ClientOption is a closure over its argument;   *)
(* it is modelled as the record of its constructor and argument, applied   *)
(* to a configuration by ApplyOption.  Durations are counted in            *)
(* milliseconds.                                                           *)
(***************************************************************************)
Second == 1000

defaultConfig ==
    [port |-> 9200, connectTimeout |-> 5 * Second,
     requestTimeout |-> 2 * Second, logger |-> Nil]

OptOk(c) == [cfg |-> c, err |-> "nil"]
OptFail(c, msg) == [cfg |-> c, err |-> msg]

\* WithPortFrom0 accepts port 0 as well.
WithPortFrom0(port, c) ==
    IF port < 0 \/ port > 65535
    THEN OptFail(c, "port must be between 1 and 65535")
    ELSE OptOk([c EXCEPT !.port = port])

WithPort(port, c) ==
    IF port < 1 \/ port > 65535
    THEN OptFail(c, "port must be between 1 and 65535")
    ELSE OptOk([c EXCEPT !.port = port])

WithConnectTimeout(d, c) ==
    IF d <= 0 THEN OptFail(c, "connect timeout must be positive")
    ELSE OptOk([c EXCEPT !.connectTimeout = d])

WithRequestTimeout(d, c) ==
    IF d <= 0 THEN OptFail(c, "request timeout must be positive")
    ELSE OptOk([c EXCEPT !.requestTimeout = d])

WithLogger(logger, c) == OptOk([c EXCEPT !.logger = logger])

\* opt(cfg) for the option opt == [name, arg].
ApplyOption(opt, c) ==
    CASE opt.name = "WithPort" -> WithPort(opt.arg, c)
      [] opt.name = "WithConnectTimeout" -> WithConnectTimeout(opt.arg, c)
      [] opt.name = "WithRequestTimeout" -> WithRequestTimeout(opt.arg, c)
      [] opt.name = "WithLogger" -> WithLogger(opt.arg, c)

(***************************************************************************)
(* State.  The codec harness holds one packet p, the buffer Encode made    *)
(* of it (possibly altered on the way) and what Decode returned for it.    *)
(***************************************************************************)
VARIABLES
    pkt,        \* the packet p handed to Encode
    buf,        \* the byte buffer handed to Decode
    dec,        \* Decode's result for buf
    step,       \* "new" | "encoded" | "decoded"
    tampered,   \* a byte or the length field of buf was overwritten
    resized     \* buf was cut short or extended

codecVars == <<pkt, buf, dec, step, tampered, resized>>

\* The message harness holds the argument of one call of a function of
\* messages.go and what the call returned.
VARIABLES
    msgFn,      \* the function called, "none" before the call
    msgArg,     \* its argument: a sequence of records or of bytes
    msgRet      \* what it returned

msgVars == <<msgFn, msgArg, msgRet>>
NoMsgResult == [out |-> <<>>, err |-> "none"]

\* One call of NewClient: its options, the configuration it builds, the
\* calls of net.DialTimeout and the reader goroutines it started.
VARIABLES
    opts,       \* the options passed to NewClient
    cfg,        \* the clientConfig, Nil before defaultConfig()
    newPc,      \* "idle", "options", "dial", "start", "done"
    optIdx,     \* the number of options applied so far
    newRet,     \* what NewClient returned
    dialCalls,  \* the calls of net.DialTimeout: port and timeout
    readLoops   \* the number of readLoop goroutines started

\* One call of Discover: the goroutines that dial the addresses, the channel
\* they send their results on and the loop that collects them.
VARIABLES
    discImpl,       \* "unbuffered": Discover of discovery.go 18-80;
                    \*   "buffered": Discover of discovery.go 118-194
    dialOk,         \* address -> the device at that address accepts the dial
    scanPc,         \* address -> "none", "dial", "sendOk", "sendFail", "done"
    resultsCh,      \* the scanResults in the buffer of resultsCh
    chClosed,       \* close(resultsCh) was called
    discPc,         \* "idle", "start", "collect", "returned", "failed"
    discI,          \* the results the unbuffered Discover has received
    discResults,    \* the addresses appended to results
    discCtxDone     \* the context of Discover has ended

discVars == <<discImpl, dialOk, scanPc, resultsCh, chClosed, discPc, discI,
              discResults, discCtxDone>>

newVars == <<opts, cfg, newPc, optIdx, newRet, dialCalls, readLoops, discVars>>
NoNewResult == [client |-> Nil, err |-> "none"]

NoResult == [pkt |-> NoPacket, err |-> "none", expected |-> 0, got |-> 0]

\* Payloads: every byte string over PayloadBytes up to MaxPayloadLen, and one
\* payload each of MaxDataLen and MaxDataLen + 1 bytes.
PayloadBytes == {0, 255}
TamperBytes == {0, 85, 246, 255}
DeclaredLens == {0, 1, 3, MaxDataLen, MaxDataLen + 1, 65525, 65526, 65527,
                 65528, 65535}

SeqsUpTo(S, n) == UNION {[1..k -> S] : k \in 0..n}
Fill(n, b) == [i \in 1..n |-> b]

SmallPackets ==
    {NewPacket(a, i, MsgTypeControlStatus, d) :
        a \in {AddressSendStandard, AddressRecvExtended}, i \in {1, 255},
        d \in SeqsUpTo(PayloadBytes, MaxPayloadLen)}
LargePackets ==
    {NewPacket(AddressSendExtended, 0, MsgTypeExtended, Fill(n, 33)) :
        n \in {MaxDataLen, MaxDataLen + 1}}

\* The packet of the protocol document's example "turn off the second
\* group" (TestEncode_SpecExample_TurnOffGroup2).
ExampleData == <<32, 0, 0, 0, 0, 1, 0, 4, 1, 2, 0, 0>>
ExamplePacket ==
    NewPacket(AddressSendStandard, 1, MsgTypeControlStatus, ExampleData)

(***************************************************************************)
(* State of one Client, its reader goroutine, the goroutines that call     *)
(* sendRequest and Close, and the device at the other end of the socket.   *)
(***************************************************************************)
VARIABLES
    nextMsgID,      \* c.nextMsgID
    pending,        \* c.pending: message id -> response channel
    mu,             \* holder of c.mu, or Free
    pendingMu,      \* holder of c.pendingMu, or Free
    isClosed,       \* c.isClosed
    closeChCloses,  \* how many times close(c.closeCh) ran
    connCloses,     \* how many times c.conn.Close() ran
    written,        \* the buffers passed to c.conn.Write, in order
    answered,       \* indices of written the device has answered
    inbound,        \* bytes sent by the device and not yet read
    eof,            \* the device closed its end
    noise,          \* number of a call -> what the device sent before or
                    \*   as the answer to it, where it sent such a thing
    rpc,            \* readLoop: "top" | "header" | "body" | "dispatch" |
                    \*   "locked" | "closing" | "stopped"
    headerBuf,      \* readLoop's headerBuf
    packet,         \* readLoop's decoded packet
    pc,             \* sendRequest: "idle" | "register" | "write" | "werr" |
                    \*   "wait" | "timedout" | "done"
    msgID,          \* sendRequest's msgID
    msgType,        \* sendRequest's msgType argument
    callNo,         \* number of the call, 1, 2, ...: names its respCh and
                    \*   is the one byte of its data argument
    elapsed,        \* seconds since the call's time.After timer started
    result,         \* what the call returned
    respCh,         \* buffer of the call's respCh (capacity 1)
    startedClosed,  \* c.isClosed when the call began
    call,           \* the method the goroutine called and its argument
    calls,          \* sendRequest calls begun so far
    closePc,        \* Close: "idle" | "locked"
    closeRet,       \* what the goroutine's last Close call returned:
                    \*   "none" | "nil" | "conn.Close()" (that call's result)
    closeCalls,     \* Close calls begun by the Closers so far
    delivered,      \* the calls that received a frame on their respCh
    atClose         \* the callers waiting unanswered, and the packet the
                    \*   reader was about to dispatch, when the socket closed

clientVars ==
    <<nextMsgID, pending, mu, pendingMu, isClosed, closeChCloses, connCloses,
      written, answered, inbound, eof, noise, rpc, headerBuf, packet, pc, msgID,
      msgType, callNo, elapsed, result, respCh, startedClosed, call, calls,
      closePc, closeRet, closeCalls, delivered, atClose>>

vars == <<codecVars, msgVars, newVars, clientVars>>

CloseProcs == Closers \cup {Reader}
NoReturn == [kind |-> "none", pkt |-> NoPacket]
NoCall == [method |-> "none"]

\* make(map[uint8]chan *Packet), Go's builtin delete(m, k), and m[k] = v.
EmptyMap == [x \in {} |-> 0]
MapDelete(m, k) == [x \in (DOMAIN m) \ {k} |-> m[x]]
MapPut(m, k, v) == [x \in (DOMAIN m) \cup {k} |-> IF x = k THEN v ELSE m[x]]

\* The state NewClient leaves: connected, reader started, nothing pending.
ClientInit ==
    /\ nextMsgID = 0
    /\ pending = EmptyMap
    /\ mu = Free
    /\ pendingMu = Free
    /\ isClosed = FALSE
    /\ closeChCloses = 0
    /\ connCloses = 0
    /\ written = <<>>
    /\ answered = {}
    /\ inbound = <<>>
    /\ eof = FALSE
    /\ noise = EmptyMap
    /\ rpc = "top"
    /\ headerBuf = <<>>
    /\ packet = NoPacket
    /\ pc = [c \in Callers |-> "idle"]
    /\ msgID = [c \in Callers |-> 0]
    /\ msgType = [c \in Callers |-> MsgTypeControlStatus]
    /\ callNo = [c \in Callers |-> 0]
    /\ elapsed = [c \in Callers |-> 0]
    /\ result = [c \in Callers |-> NoReturn]
    /\ respCh = [c \in Callers |-> <<>>]
    /\ startedClosed = [c \in Callers |-> FALSE]
    /\ call = [c \in Callers |-> NoCall]
    /\ calls = 0
    /\ closePc = [q \in CloseProcs |-> "idle"]
    /\ closeRet = [q \in CloseProcs |-> "none"]
    /\ closeCalls = 0
    /\ delivered = {}
    /\ atClose = [waiting |-> {}, inHand |-> NoPacket]

(***************************************************************************)
(* Close (client.go 59-68).                                                *)
(***************************************************************************)
readerVars == <<rpc, headerBuf, packet>>
callerVars == <<pc, msgID, msgType, callNo, elapsed, result, respCh,
                startedClosed, call, calls, delivered>>
deviceVars == <<written, answered, inbound, eof, noise>>
closedVars == <<isClosed, closeChCloses, connCloses, atClose>>

\* c.mu.Lock() on entry to Close.
CloseLock(q) ==
    /\ closePc[q] = "idle"
    /\ IF q = Reader THEN rpc = "closing" ELSE closeCalls < MaxCloseCalls
    /\ mu = Free
    /\ mu' = q
    /\ closePc' = [closePc EXCEPT ![q] = "locked"]
    /\ closeCalls' = IF q = Reader THEN closeCalls ELSE closeCalls + 1
    /\ UNCHANGED <<nextMsgID, pending, pendingMu, closedVars, deviceVars,
                   readerVars, callerVars, closeRet,
                   codecVars, msgVars, newVars>>

\* if c.isClosed { return nil }.  CloseNeverSkips is a Close without the test.
CloseNeverSkips == FALSE
CloseSkips == isClosed

\* The body of Close under c.mu, and the deferred Unlock.
CloseBody(q) ==
    /\ closePc[q] = "locked"
    /\ mu = q
    /\ IF CloseSkips
       THEN /\ closeRet' = [closeRet EXCEPT ![q] = "nil"]
            /\ UNCHANGED closedVars
       ELSE /\ isClosed' = TRUE
            /\ closeChCloses' = closeChCloses + 1
            /\ connCloses' = connCloses + 1
            /\ closeRet' = [closeRet EXCEPT ![q] = "conn.Close()"]
            /\ atClose' =
                 IF connCloses = 0
                 THEN [waiting |-> {c \in Callers :
                                      pc[c] = "wait" /\ respCh[c] = <<>>},
                       inHand  |-> IF rpc \in {"dispatch", "locked"}
                                   THEN packet ELSE NoPacket]
                 ELSE atClose
    /\ mu' = Free
    /\ closePc' = [closePc EXCEPT ![q] = "idle"]
    /\ rpc' = IF q = Reader THEN "stopped" ELSE rpc
    /\ UNCHANGED <<nextMsgID, pending, pendingMu, deviceVars, headerBuf,
                   packet, callerVars, closeCalls,
                   codecVars, msgVars, newVars>>

(***************************************************************************)
(* sendRequest (client.go 146-186).                                        *)
(***************************************************************************)
syncVars == <<mu, pendingMu>>
closerVars == <<closePc, closeRet, closeCalls>>

\* The data argument of caller c's sendRequest: what SetGroupControl
\* marshalled, or else the one byte callNo[c].
RequestData(c) ==
    IF call[c].method = "SetGroupControl"
    THEN MarshalGroupControl(call[c].groups).buf
    ELSE <<callNo[c]>>

\* The request frame of caller c.
RequestAddress(t) ==
    IF t = MsgTypeExtended THEN AddressSendExtended ELSE AddressSendStandard
Encoded(c) ==
    EncodeCached(NewPacket(RequestAddress(msgType[c]), msgID[c], msgType[c],
                           RequestData(c))).buf

\* The msgType a goroutine passes: odd callers query status (0xC0), even
\* callers send extended requests (0x1F).
CallerMsgType(c) ==
    IF c % 2 = 1 THEN MsgTypeControlStatus ELSE MsgTypeExtended

\* c.nextMsgID++ on the unsigned counter, which wraps to 0 after its
\* largest value.  IncMsgIDWide is the increment of a counter that is wider
\* than the message id.
IncMsgIDWide(v) == v + 1
IncMsgID(v) == (v + 1) % IdSpace

\* c.mu.Lock(); msgID := c.nextMsgID; c.nextMsgID++; c.mu.Unlock()
AllocUpTo(c, limit) ==
    /\ pc[c] = "idle"
    /\ calls < limit
    /\ mu = Free
    /\ msgType' = [msgType EXCEPT ![c] = CallerMsgType(c)]
    /\ msgID' = [msgID EXCEPT ![c] = nextMsgID]
    /\ nextMsgID' = IncMsgID(nextMsgID)
    /\ calls' = calls + 1
    /\ callNo' = [callNo EXCEPT ![c] = calls + 1]
    /\ startedClosed' = [startedClosed EXCEPT ![c] = isClosed]
    /\ call' = [call EXCEPT ![c] = [method |-> "sendRequest"]]
    /\ pc' = [pc EXCEPT ![c] = "register"]
    /\ atClose' = [atClose EXCEPT !.waiting = @ \ {c}]
    /\ UNCHANGED <<pending, syncVars, isClosed, closeChCloses, connCloses,
                   deviceVars, readerVars, elapsed, result, respCh, closerVars,
                   delivered,
                   codecVars, msgVars, newVars>>

\* SetGroupControl (client.go 226-236): data, err := MarshalGroupControl(
\* groups); if err != nil { return err }; _, err = c.sendRequest(
\* MsgTypeControlStatus, data); return err.  The step is the method up to and
\* including sendRequest's allocation of the message id.
SetGroupControl(c, groups, limit) ==
    /\ pc[c] = "idle"
    /\ call' = [call EXCEPT ![c] = [method |-> "SetGroupControl",
                                    groups |-> groups]]
    /\ LET m == MarshalGroupControl(groups)
       IN  IF m.err # "nil"
           THEN /\ result' = [result EXCEPT
                                ![c] = [kind |-> m.err, pkt |-> NoPacket]]
                /\ pc' = [pc EXCEPT ![c] = "done"]
                /\ UNCHANGED <<nextMsgID, msgID, msgType, calls, callNo,
                               startedClosed, atClose>>
           ELSE /\ calls < limit
                /\ mu = Free
                /\ msgType' = [msgType EXCEPT ![c] = MsgTypeControlStatus]
                /\ msgID' = [msgID EXCEPT ![c] = nextMsgID]
                /\ nextMsgID' = IncMsgID(nextMsgID)
                /\ calls' = calls + 1
                /\ callNo' = [callNo EXCEPT ![c] = calls + 1]
                /\ startedClosed' = [startedClosed EXCEPT ![c] = isClosed]
                /\ pc' = [pc EXCEPT ![c] = "register"]
                /\ atClose' = [atClose EXCEPT !.waiting = @ \ {c}]
                /\ UNCHANGED result
    /\ UNCHANGED <<pending, syncVars, isClosed, closeChCloses, connCloses,
                   deviceVars, readerVars, elapsed, respCh, closerVars,
                   delivered,
                   codecVars, msgVars, newVars>>

\* respCh := make(chan *Packet, 1); c.pending[msgID] = respCh, under pendingMu.
Register(c) ==
    /\ pc[c] = "register"
    /\ pendingMu = Free
    /\ respCh' = [respCh EXCEPT ![c] = <<>>]
    /\ pending' = MapPut(pending, msgID[c], callNo[c])
    /\ pc' = [pc EXCEPT ![c] = "write"]
    /\ UNCHANGED <<nextMsgID, syncVars, closedVars, deviceVars, readerVars,
                   msgID, msgType, callNo, elapsed, result, startedClosed,
                   calls, closerVars, delivered,
                   call, codecVars, msgVars, newVars>>

\* c.conn.Write fails on a socket this side has closed.
WriteFails == connCloses > 0

\* _, err := c.conn.Write(encoded)
Write(c) ==
    /\ pc[c] = "write"
    /\ IF WriteFails
       THEN /\ pc' = [pc EXCEPT ![c] = "werr"]
            /\ UNCHANGED <<written, elapsed>>
       ELSE /\ written' = Append(written, Encoded(c))
            /\ elapsed' = [elapsed EXCEPT ![c] = 0]
            /\ pc' = [pc EXCEPT ![c] = "wait"]
    /\ UNCHANGED <<nextMsgID, pending, syncVars, closedVars, answered, inbound,
                   eof, noise, readerVars, msgID, msgType, callNo, result,
                   respCh,
                   startedClosed, calls, closerVars, delivered,
                   call, codecVars, msgVars, newVars>>

\* The pending table after the write-error path's delete(c.pending, msgID).
\* WriteErrKeepsSlot is the path without the delete.
WriteErrKeepsSlot(c) == pending
WriteErrPending(c) == MapDelete(pending, msgID[c])

\* if err != nil { lock; delete(c.pending, msgID); unlock; return nil, err }
WriteErrCleanup(c) ==
    /\ pc[c] = "werr"
    /\ pendingMu = Free
    /\ pending' = WriteErrPending(c)
    /\ result' = [result EXCEPT ![c] = [kind |-> "WriteErr", pkt |-> NoPacket]]
    /\ pc' = [pc EXCEPT ![c] = "done"]
    /\ UNCHANGED <<nextMsgID, syncVars, closedVars, deviceVars, readerVars,
                   msgID, msgType, callNo, elapsed, respCh, startedClosed,
                   calls, closerVars, delivered,
                   call, codecVars, msgVars, newVars>>

\* case resp := <-respCh: return resp, nil
Receive(c) ==
    /\ pc[c] = "wait"
    /\ respCh[c] # <<>>
    /\ result' = [result EXCEPT ![c] = [kind |-> "ok", pkt |-> Head(respCh[c])]]
    /\ respCh' = [respCh EXCEPT ![c] = Tail(respCh[c])]
    /\ pc' = [pc EXCEPT ![c] = "done"]
    /\ delivered' = delivered \cup {callNo[c]}
    /\ UNCHANGED <<nextMsgID, pending, syncVars, closedVars, deviceVars,
                   readerVars, msgID, msgType, callNo, elapsed, startedClosed,
                   calls, closerVars,
                   call, codecVars, msgVars, newVars>>

\* The channel of time.After(c.requestTimeout) has a value to receive.
\* TimerAnytime is a timer that may fire at once.
TimerAnytime(c) == elapsed[c] >= 0
TimerExpired(c) == elapsed[c] >= RequestTimeout

\* case <-time.After(c.requestTimeout): the select takes the timer's case.
TimerFire(c) ==
    /\ pc[c] = "wait"
    /\ TimerExpired(c)
    /\ pc' = [pc EXCEPT ![c] = "timedout"]
    /\ UNCHANGED <<nextMsgID, pending, syncVars, closedVars, deviceVars,
                   readerVars, msgID, msgType, callNo, elapsed, result, respCh,
                   startedClosed, calls, closerVars, delivered,
                   call, codecVars, msgVars, newVars>>

\* The pending table after the timeout path's delete(c.pending, msgID).
TimeoutPending(c) == MapDelete(pending, msgID[c])

\* lock; delete(c.pending, msgID); unlock; return nil, fmt.Errorf("timeout...")
TimeoutCleanup(c) ==
    /\ pc[c] = "timedout"
    /\ pendingMu = Free
    /\ pending' = TimeoutPending(c)
    /\ result' = [result EXCEPT ![c] = [kind |-> "Timeout", pkt |-> NoPacket]]
    /\ pc' = [pc EXCEPT ![c] = "done"]
    /\ UNCHANGED <<nextMsgID, syncVars, closedVars, deviceVars, readerVars,
                   msgID, msgType, callNo, elapsed, respCh, startedClosed,
                   calls, closerVars, delivered,
                   call, codecVars, msgVars, newVars>>

\* The caller takes the result; the goroutine is free to call again.
Return(c) ==
    /\ pc[c] = "done"
    /\ pc' = [pc EXCEPT ![c] = "idle"]
    /\ msgID' = [msgID EXCEPT ![c] = 0]
    /\ msgType' = [msgType EXCEPT ![c] = MsgTypeControlStatus]
    /\ callNo' = [callNo EXCEPT ![c] = 0]
    /\ elapsed' = [elapsed EXCEPT ![c] = 0]
    /\ result' = [result EXCEPT ![c] = NoReturn]
    /\ respCh' = [respCh EXCEPT ![c] = <<>>]
    /\ startedClosed' = [startedClosed EXCEPT ![c] = FALSE]
    /\ call' = [call EXCEPT ![c] = NoCall]
    /\ atClose' = [atClose EXCEPT !.waiting = @ \ {c}]
    /\ UNCHANGED <<nextMsgID, pending, syncVars, isClosed, closeChCloses,
                   connCloses, deviceVars, readerVars, calls, closerVars,
                   delivered,
                   codecVars, msgVars, newVars>>

\* One second passes for every running timer.
Tick ==
    /\ \E c \in Callers : pc[c] = "wait" /\ elapsed[c] < RequestTimeout
    /\ elapsed' = [c \in Callers |->
                     IF pc[c] = "wait" /\ elapsed[c] < RequestTimeout
                     THEN elapsed[c] + 1 ELSE elapsed[c]]
    /\ UNCHANGED <<nextMsgID, pending, syncVars, closedVars, deviceVars,
                   readerVars, pc, msgID, msgType, callNo, result, respCh,
                   startedClosed, calls, closerVars, delivered,
                   call, codecVars, msgVars, newVars>>

(***************************************************************************)
(* readLoop (client.go 70-144).                                            *)
(***************************************************************************)
\* io.ReadFull(c.conn, b) for len(b) = n: it fails on a socket this side has
\* closed and when the device closed before n bytes came; it returns the next
\* n bytes once they are there; otherwise it blocks.
\* ReadFailsWhenEmpty is a read that fails at the end of the stream only
\* when no byte came, and keeps waiting for the rest of a partial read.
ReadFailsWhenEmpty(n) == connCloses > 0 \/ (eof /\ Len(inbound) = 0)
\* ReadFailsAtEofOnly is a read that a Close of this side does not wake.
ReadFailsAtEofOnly(n) == eof /\ Len(inbound) < n
ReadFails(n) == connCloses > 0 \/ (eof /\ Len(inbound) < n)
\* ReadReadyAnyway is a read that still succeeds on a socket this side closed.
ReadReadyAnyway(n) == Len(inbound) >= n
ReadReady(n) == connCloses = 0 /\ Len(inbound) >= n
\* AfterReadSlides is a reader that moves on by one byte only.
AfterReadSlides(n) == SubSeq(inbound, 2, Len(inbound))
AfterRead(n) == SubSeq(inbound, n + 1, Len(inbound))
AfterFailedRead == IF connCloses > 0 THEN inbound ELSE <<>>

\* select { case <-c.closeCh: return; default: ... }
ReaderTop ==
    /\ rpc = "top"
    /\ rpc' = IF closeChCloses > 0 THEN "stopped" ELSE "header"
    /\ UNCHANGED <<nextMsgID, pending, syncVars, closedVars, deviceVars,
                   headerBuf, packet, callerVars, closerVars,
                   codecVars, msgVars, newVars>>

\* dataLen := int(headerBuf[6])<<8 | int(headerBuf[7])
\* HeaderDataLenLE reads the two bytes in the other order.
HeaderDataLenLE(h) == h[8] * 256 + h[7]
HeaderDataLen(h) == h[7] * 256 + h[8]

\* Read the 8 header bytes; check the magic and the declared length.
ReadHeader ==
    /\ rpc = "header"
    /\ \/ /\ ReadFails(8)
          /\ inbound' = AfterFailedRead
          /\ rpc' = "closing"
          /\ UNCHANGED headerBuf
       \/ /\ ReadReady(8)
          /\ inbound' = AfterRead(8)
          /\ LET h == SubSeq(inbound, 1, 8)
             IN  IF h[1] # 85 \/ h[2] # 85
                 THEN rpc' = "top" /\ UNCHANGED headerBuf
                 ELSE IF HeaderDataLen(h) > MaxDataLen
                 THEN rpc' = "top" /\ UNCHANGED headerBuf
                 ELSE rpc' = "body" /\ headerBuf' = h
    /\ UNCHANGED <<nextMsgID, pending, syncVars, closedVars, written, answered,
                   eof, noise, packet, callerVars, closerVars,
                   codecVars, msgVars, newVars>>

\* Read dataLen + 2 more bytes and Decode the whole frame.
ReadBody ==
    /\ rpc = "body"
    /\ LET toRead == HeaderDataLen(headerBuf) + 2
       IN  \/ /\ ReadFails(toRead)
              /\ inbound' = AfterFailedRead
              /\ rpc' = "closing"
              /\ UNCHANGED <<headerBuf, packet>>
           \/ /\ ReadReady(toRead)
              /\ inbound' = AfterRead(toRead)
              /\ LET d == DecodeCached(headerBuf \o SubSeq(inbound, 1, toRead))
                 IN  IF d.err # "nil"
                     THEN rpc' = "top" /\ UNCHANGED packet
                     ELSE rpc' = "dispatch" /\ packet' = d.pkt
              /\ headerBuf' = <<>>
    /\ UNCHANGED <<nextMsgID, pending, syncVars, closedVars, written, answered,
                   eof, noise, callerVars, closerVars,
                   codecVars, msgVars, newVars>>

\* c.pendingMu.Lock()
ReaderLock ==
    /\ rpc = "dispatch"
    /\ pendingMu = Free
    /\ pendingMu' = Reader
    /\ rpc' = "locked"
    /\ UNCHANGED <<nextMsgID, pending, mu, closedVars, deviceVars, headerBuf,
                   packet, callerVars, closerVars,
                   codecVars, msgVars, newVars>>

\* The key readLoop looks up: ch, ok := c.pending[packet.MsgID].
\* DispatchByArrival is a lookup of the oldest pending call, whatever the id.
DispatchByArrival(p) ==
    IF DOMAIN pending = {} THEN p.MsgID
    ELSE CHOOSE i \in DOMAIN pending :
            \A j \in DOMAIN pending : pending[i] <= pending[j]
DispatchKey(p) == p.MsgID

\* The goroutine that still holds the channel of call n, if any.
Holder(n) ==
    {c \in Callers :
        callNo[c] = n /\ pc[c] \in {"write", "werr", "wait", "timedout"}}

\* respCh := make(chan *Packet, 1): the number of frames a waiter's channel
\* holds before a send on it blocks.  Unbuffered is a channel that holds
\* none.
Unbuffered == Len(<<>>)
RespChCap == 1

\* The pending table after delete(c.pending, packet.MsgID).
\* DispatchKeepsSlot is a dispatch without the delete.
DispatchKeepsSlot(key) == pending
DispatchPending(key) == MapDelete(pending, key)

\* if ok { ch <- packet; delete(c.pending, packet.MsgID) }; Unlock
Dispatch ==
    /\ rpc = "locked"
    /\ LET key == DispatchKey(packet)
       IN  IF key \in DOMAIN pending
           THEN /\ \A c \in Holder(pending[key]) : Len(respCh[c]) < RespChCap
                /\ respCh' = [c \in Callers |->
                                IF c \in Holder(pending[key])
                                THEN Append(respCh[c], packet) ELSE respCh[c]]
                /\ pending' = DispatchPending(key)
           ELSE UNCHANGED <<pending, respCh>>
    /\ pendingMu' = Free
    /\ packet' = NoPacket
    /\ rpc' = "top"
    /\ UNCHANGED <<nextMsgID, mu, closedVars, deviceVars, headerBuf, pc, msgID,
                   msgType, callNo, elapsed, result, startedClosed, calls,
                   closerVars, delivered,
                   call, codecVars, msgVars, newVars>>

(***************************************************************************)
(* The device: it answers a request with a frame that echoes the request's *)
(* message id (PROTOCOL.md), in any order and at any time, or never.  In   *)
(* the model the answer also repeats the request's type and data; the data *)
(* is the number of the call, so a frame tells which request it answers.   *)
(***************************************************************************)
ResponseAddress(t) ==
    IF t = MsgTypeExtended THEN AddressRecvExtended ELSE AddressRecvStandard

Response(req) ==
    EncodeCached(NewPacket(ResponseAddress(req.MsgType), req.MsgID,
                           req.MsgType, req.Data)).buf

DeviceRespond ==
    /\ ~eof /\ connCloses = 0
    /\ \E k \in (1..Len(written)) \ answered :
          /\ answered' = answered \cup {k}
          /\ inbound' = inbound \o Response(DecodeCached(written[k]).pkt)
    /\ UNCHANGED <<nextMsgID, pending, syncVars, closedVars, written, eof,
                   noise, readerVars, callerVars, closerVars,
                   codecVars, msgVars, newVars>>

DeviceClose ==
    /\ ~eof /\ connCloses = 0
    /\ eof' = TRUE
    /\ UNCHANGED <<nextMsgID, pending, syncVars, closedVars, written, answered,
                   inbound, noise, readerVars, callerVars, closerVars,
                   codecVars, msgVars, newVars>>

\* The device sends the first n bytes of an answer and closes its end: the
\* reader's io.ReadFull gets a partial header, a header without the rest, or
\* a partial body.
TruncatedLens == {1, 7, 8, 9, 10}
DeviceTruncate ==
    /\ ~eof /\ connCloses = 0
    /\ \E k \in (1..Len(written)) \ answered, n \in TruncatedLens :
          /\ answered' = answered \cup {k}
          /\ inbound' = inbound
                 \o SubSeq(Response(DecodeCached(written[k]).pkt), 1, n)
    /\ eof' = TRUE
    /\ UNCHANGED <<nextMsgID, pending, syncVars, closedVars, written, noise,
                   readerVars, callerVars, closerVars,
                   codecVars, msgVars, newVars>>

\* A device, or whatever sits on the line, that sends bytes the reader has
\* to reject before the answer to request k: an 8-byte window without the
\* magic, the answer with one byte changed, or a header that declares more
\* than MaxDataLen bytes; or that answers with a payload of MaxDataLen bytes.
CallOf(frame) == DecodeCached(frame).pkt.Data[1]
JunkWindows == {Fill(8, 0), <<0, 85, 85, 85, 0, 0, 0, 1>>,
                <<85, 0, 85, 85, 0, 0, 0, 1>>}
CorruptAt == {3, 5, 9, 10, 11}
Corrupted(frame, i) == [frame EXCEPT ![i] = (@ + 1) % 256]
OversizeLens == {MaxDataLen + 1, 65535}
OversizeHeader(req, n) ==
    PutUint16(HeaderBytes) \o PutUint16(ResponseAddress(req.MsgType))
        \o <<req.MsgID, req.MsgType>> \o PutUint16(n)
MaxLenResponse(req) == MaxLenTable[MaxLenKey(req.MsgID, req.MsgType)].buf

DeviceDesync ==
    /\ ~eof /\ connCloses = 0
    /\ \E k \in (1..Len(written)) \ answered, w \in JunkWindows :
          /\ answered' = answered \cup {k}
          /\ inbound' = inbound \o w
                            \o Response(DecodeCached(written[k]).pkt)
          /\ noise' = MapPut(noise, CallOf(written[k]), "desync")
    /\ UNCHANGED <<nextMsgID, pending, syncVars, closedVars, written, eof,
                   readerVars, callerVars, closerVars,
                   codecVars, msgVars, newVars>>

DeviceCorrupt ==
    /\ ~eof /\ connCloses = 0
    /\ \E k \in (1..Len(written)) \ answered, i \in CorruptAt :
          LET resp == Response(DecodeCached(written[k]).pkt)
          IN  /\ answered' = answered \cup {k}
              /\ inbound' = inbound \o Corrupted(resp, i) \o resp
              /\ noise' = MapPut(noise, CallOf(written[k]), "corrupt")
    /\ UNCHANGED <<nextMsgID, pending, syncVars, closedVars, written, eof,
                   readerVars, callerVars, closerVars,
                   codecVars, msgVars, newVars>>

DeviceOversize ==
    /\ ~eof /\ connCloses = 0
    /\ \E k \in (1..Len(written)) \ answered, n \in OversizeLens :
          LET req == DecodeCached(written[k]).pkt
          IN  /\ answered' = answered \cup {k}
              /\ inbound' = inbound \o OversizeHeader(req, n)
                                \o Response(req)
              /\ noise' = MapPut(noise, CallOf(written[k]), "oversize")
    /\ UNCHANGED <<nextMsgID, pending, syncVars, closedVars, written, eof,
                   readerVars, callerVars, closerVars,
                   codecVars, msgVars, newVars>>

DeviceMaxLen ==
    /\ ~eof /\ connCloses = 0
    /\ \E k \in (1..Len(written)) \ answered :
          /\ answered' = answered \cup {k}
          /\ inbound' = inbound
                 \o MaxLenResponse(DecodeCached(written[k]).pkt)
          /\ noise' = MapPut(noise, CallOf(written[k]), "maxlen")
    /\ UNCHANGED <<nextMsgID, pending, syncVars, closedVars, written, eof,
                   readerVars, callerVars, closerVars,
                   codecVars, msgVars, newVars>>

\* Steps of the reader, of the device and of time, and the steps of a
\* sendRequest call after its first.
Background ==
    \/ \E c \in Callers : Register(c)
    \/ \E c \in Callers : Write(c)
    \/ \E c \in Callers : WriteErrCleanup(c)
    \/ \E c \in Callers : Receive(c)
    \/ \E c \in Callers : TimerFire(c)
    \/ \E c \in Callers : TimeoutCleanup(c)
    \/ \E c \in Callers : Return(c)
    \/ Tick
    \/ ReaderTop
    \/ ReadHeader
    \/ ReadBody
    \/ ReaderLock
    \/ Dispatch
    \/ DeviceRespond
    \/ DeviceClose
    \/ CloseLock(Reader)
    \/ CloseBody(Reader)

\* Requests: up to MaxCalls calls, a full turn of the id counter and one
\* more; the connection closes only through the reader, on a read error.
ClientNext ==
    \/ \E c \in Callers : AllocUpTo(c, MaxCalls)
    \/ Background

\* Closing: goroutines calling Close at any time, and up to MaxCallsClosing
\* sendRequest calls.
ClosingNext ==
    \/ \E q \in Closers : CloseLock(q)
    \/ \E q \in Closers : CloseBody(q)
    \/ \E c \in Callers : AllocUpTo(c, MaxCallsClosing)
    \/ Background

\* Read failures: up to MaxCallsReading requests and a device that may stop
\* in the middle of a frame.  The reader goroutine is scheduled: a read that
\* can return does return, and its call of Close goes on (nobody else holds
\* c.mu for longer than a critical section).
ReadingNext ==
    \/ \E c \in Callers : AllocUpTo(c, MaxCallsReading)
    \/ DeviceTruncate
    \/ Background

ReaderFairness ==
    /\ WF_vars(ReadHeader)
    /\ WF_vars(ReadBody)
    /\ WF_vars(CloseLock(Reader))
    /\ WF_vars(CloseBody(Reader))

(***************************************************************************)
(* sendRequest(ctx, msgType, data) (part_002 156-203).  The context is an  *)
(* argument of the call: call[c].deadline is Nil for a context without a   *)
(* deadline and otherwise the seconds from the start of the call to the    *)
(* deadline; call[c].canceled says that the caller's side cancelled it.    *)
(* elapsed[c] counts the seconds since the call began when the context has *)
(* a deadline and, when it has none, the seconds since                     *)
(* context.WithTimeout(ctx, c.requestTimeout) was made, after the write.   *)
(***************************************************************************)
CtxDeadlines == {Nil, Ptr(1), Ptr(RequestTimeout + 1)}
MaxWait == RequestTimeout + 1

\* c.mu.Lock(); msgID := c.nextMsgID; c.nextMsgID++; c.mu.Unlock()
AllocCtx(c, limit) ==
    /\ pc[c] = "idle"
    /\ calls < limit
    /\ mu = Free
    /\ msgType' = [msgType EXCEPT ![c] = CallerMsgType(c)]
    /\ msgID' = [msgID EXCEPT ![c] = nextMsgID]
    /\ nextMsgID' = IncMsgID(nextMsgID)
    /\ calls' = calls + 1
    /\ callNo' = [callNo EXCEPT ![c] = calls + 1]
    /\ startedClosed' = [startedClosed EXCEPT ![c] = isClosed]
    /\ \E d \in CtxDeadlines :
          call' = [call EXCEPT ![c] = [method |-> "sendRequestCtx",
                                       deadline |-> d, canceled |-> FALSE]]
    /\ pc' = [pc EXCEPT ![c] = "register"]
    /\ atClose' = [atClose EXCEPT !.waiting = @ \ {c}]
    /\ UNCHANGED <<pending, syncVars, isClosed, closeChCloses, connCloses,
                   deviceVars, readerVars, elapsed, result, respCh, closerVars,
                   delivered,
                   codecVars, msgVars, newVars>>

\* The seconds after which the context the select waits on ends by itself:
\* if _, hasDeadline := ctx.Deadline(); !hasDeadline { ctx, cancel =
\* context.WithTimeout(ctx, c.requestTimeout) }.
\* CtxBoundBoth is a wait that applies requestTimeout to every context.
CtxBoundBoth(c) ==
    IF call[c].deadline = Nil THEN RequestTimeout
    ELSE Min(Deref(call[c].deadline), RequestTimeout)
CtxBound(c) ==
    IF call[c].deadline = Nil THEN RequestTimeout
    ELSE Deref(call[c].deadline)

\* ctx.Err()
CtxErr(c) ==
    IF call[c].canceled THEN "context canceled"
    ELSE IF elapsed[c] >= CtxBound(c) THEN "context deadline exceeded"
    ELSE "nil"

\* The caller's side cancels the context of a call in progress.
CtxCancel(c) ==
    /\ pc[c] \in {"register", "write", "wait"}
    /\ CtxErr(c) = "nil"
    /\ call' = [call EXCEPT ![c].canceled = TRUE]
    /\ UNCHANGED <<nextMsgID, pending, syncVars, closedVars, deviceVars,
                   readerVars, pc, msgID, msgType, callNo, elapsed, result,
                   respCh, startedClosed, calls, closerVars, delivered,
                   codecVars, msgVars, newVars>>

\* _, err := c.conn.Write(encoded), and the context the select waits on.
WriteCtx(c) ==
    /\ pc[c] = "write"
    /\ IF WriteFails
       THEN /\ pc' = [pc EXCEPT ![c] = "werr"]
            /\ UNCHANGED <<written, elapsed>>
       ELSE /\ written' = Append(written, Encoded(c))
            /\ elapsed' = [elapsed EXCEPT
                             ![c] = IF call[c].deadline = Nil THEN 0 ELSE @]
            /\ pc' = [pc EXCEPT ![c] = "wait"]
    /\ UNCHANGED <<nextMsgID, pending, syncVars, closedVars, answered, inbound,
                   eof, noise, readerVars, msgID, msgType, callNo, result,
                   respCh,
                   startedClosed, calls, closerVars, delivered,
                   call, codecVars, msgVars, newVars>>

\* A clock of caller c is running.
Timed(c) ==
    \/ pc[c] = "wait"
    \/ pc[c] \in {"register", "write"} /\ call[c].deadline # Nil

\* One second passes for every running clock.
TickCtx ==
    /\ \E c \in Callers : Timed(c) /\ elapsed[c] < MaxWait
    /\ elapsed' = [c \in Callers |->
                     IF Timed(c) /\ elapsed[c] < MaxWait
                     THEN elapsed[c] + 1 ELSE elapsed[c]]
    /\ UNCHANGED <<nextMsgID, pending, syncVars, closedVars, deviceVars,
                   readerVars, pc, msgID, msgType, callNo, result, respCh,
                   startedClosed, calls, closerVars, delivered,
                   call, codecVars, msgVars, newVars>>

\* case <-ctx.Done(): the select takes the context's case.
CtxDone(c) ==
    /\ pc[c] = "wait"
    /\ CtxErr(c) # "nil"
    /\ pc' = [pc EXCEPT ![c] = "ctxdone"]
    /\ UNCHANGED <<nextMsgID, pending, syncVars, closedVars, deviceVars,
                   readerVars, msgID, msgType, callNo, elapsed, result, respCh,
                   startedClosed, calls, closerVars, delivered,
                   call, codecVars, msgVars, newVars>>

\* The pending table after the context path's delete(c.pending, msgID).
\* CtxKeepsSlot is the path without the delete.
CtxKeepsSlot(c) == pending
CtxPending(c) == MapDelete(pending, msgID[c])

\* lock; delete(c.pending, msgID); unlock;
\* return nil, fmt.Errorf("request canceled: %w", ctx.Err())
CtxCleanup(c) ==
    /\ pc[c] = "ctxdone"
    /\ pendingMu = Free
    /\ pending' = CtxPending(c)
    /\ result' = [result EXCEPT ![c] = [kind |-> "request canceled",
                                        pkt |-> NoPacket,
                                        wraps |-> CtxErr(c)]]
    /\ pc' = [pc EXCEPT ![c] = "done"]
    /\ UNCHANGED <<nextMsgID, syncVars, closedVars, deviceVars, readerVars,
                   msgID, msgType, callNo, elapsed, respCh, startedClosed,
                   calls, closerVars, delivered,
                   call, codecVars, msgVars, newVars>>

\* Requests with a context: up to MaxCallsCtx calls, contexts with and
\* without a deadline, cancelled at any time or never, and a device that
\* answers at any time or never.
CtxNext ==
    \/ \E c \in Callers : AllocCtx(c, MaxCallsCtx)
    \/ \E c \in Callers : Register(c)
    \/ \E c \in Callers : WriteCtx(c)
    \/ \E c \in Callers : CtxCancel(c)
    \/ \E c \in Callers : Receive(c)
    \/ \E c \in Callers : CtxDone(c)
    \/ \E c \in Callers : CtxCleanup(c)
    \/ \E c \in Callers : Return(c)
    \/ TickCtx
    \/ ReaderTop
    \/ ReadHeader
    \/ ReadBody
    \/ ReaderLock
    \/ Dispatch
    \/ DeviceRespond

\* Stopping: goroutines calling Close at any time and up to
\* MaxCallsStopping sendRequest calls, with every goroutine that can take a
\* step of readLoop or of Close scheduled: the reader's select, reads, lock,
\* dispatch and Close go on when they can, and a goroutine inside Close
\* reaches the deferred Unlock.
StoppingNext ==
    \/ \E q \in Closers : CloseLock(q)
    \/ \E q \in Closers : CloseBody(q)
    \/ \E c \in Callers : AllocUpTo(c, MaxCallsStopping)
    \/ \E c \in Callers : Register(c)
    \/ \E c \in Callers : Write(c)
    \/ \E c \in Callers : WriteErrCleanup(c)
    \/ \E c \in Callers : Receive(c)
    \/ \E c \in Callers : TimerFire(c)
    \/ \E c \in Callers : TimeoutCleanup(c)
    \/ \E c \in Callers : Return(c)
    \/ Tick
    \/ ReaderTop
    \/ ReadHeader
    \/ ReadBody
    \/ ReaderLock
    \/ Dispatch
    \/ DeviceRespond
    \/ DeviceClose
    \/ CloseLock(Reader)
    \/ CloseBody(Reader)

StoppingFairness ==
    /\ WF_vars(ReaderTop)
    /\ WF_vars(ReadHeader)
    /\ WF_vars(ReadBody)
    /\ WF_vars(ReaderLock)
    /\ WF_vars(Dispatch)
    /\ WF_vars(CloseLock(Reader))
    /\ WF_vars(CloseBody(Reader))
    /\ \A q \in Closers : WF_vars(CloseBody(q))

\* c.conn.Write(encoded) on a socket that takes the frame in two parts
\* (client.go 168).  sendRequest holds neither c.mu nor c.pendingMu here; a
\* net.Conn serialises its Write calls, so a Write that began has the socket
\* to itself until it returns.  ConnWriteUnlocked is a socket without that:
\* a second Write may start between the parts of the first.
ConnWriteUnlocked == FALSE
ConnWriteBusy == \E d \in Callers : pc[d] = "writing"

FirstPart(frame) == SubSeq(frame, 1, Len(frame) \div 2)
RestPart(frame) == SubSeq(frame, Len(frame) \div 2 + 1, Len(frame))

\* The Write call starts and the socket takes the first part of the frame.
WriteBegin(c) ==
    /\ pc[c] = "write"
    /\ ~WriteFails
    /\ ~ConnWriteBusy
    /\ written' = Append(written, FirstPart(Encoded(c)))
    /\ pc' = [pc EXCEPT ![c] = "writing"]
    /\ UNCHANGED <<nextMsgID, pending, syncVars, closedVars, answered, inbound,
                   eof, noise, readerVars, msgID, msgType, callNo, elapsed,
                   result, respCh,
                   startedClosed, calls, closerVars, delivered,
                   call, codecVars, msgVars, newVars>>

\* The socket takes the rest; Write returns nil and the select begins.
WriteEnd(c) ==
    /\ pc[c] = "writing"
    /\ written' = Append(written, RestPart(Encoded(c)))
    /\ elapsed' = [elapsed EXCEPT ![c] = 0]
    /\ pc' = [pc EXCEPT ![c] = "wait"]
    /\ UNCHANGED <<nextMsgID, pending, syncVars, closedVars, answered, inbound,
                   eof, noise, readerVars, msgID, msgType, callNo, result,
                   respCh,
                   startedClosed, calls, closerVars, delivered,
                   call, codecVars, msgVars, newVars>>

\* Slow writes: up to MaxCallsWriting requests to a device that answers
\* none, over a socket that takes every frame in two parts.
WritingNext ==
    \/ \E c \in Callers : AllocUpTo(c, MaxCallsWriting)
    \/ \E c \in Callers : Register(c)
    \/ \E c \in Callers : WriteBegin(c)
    \/ \E c \in Callers : WriteEnd(c)
    \/ \E c \in Callers : TimerFire(c)
    \/ \E c \in Callers : TimeoutCleanup(c)
    \/ \E c \in Callers : Return(c)
    \/ Tick

\* Bad frames: up to MaxCallsInbound requests, and a device that never
\* answers a request without sending something the reader has to reject
\* first, or answers with the longest payload.
InboundNext ==
    \/ \E c \in Callers : AllocUpTo(c, MaxCallsInbound)
    \/ \E c \in Callers : Register(c)
    \/ \E c \in Callers : Write(c)
    \/ \E c \in Callers : Receive(c)
    \/ \E c \in Callers : TimerFire(c)
    \/ \E c \in Callers : TimeoutCleanup(c)
    \/ \E c \in Callers : Return(c)
    \/ Tick
    \/ ReaderTop
    \/ ReadHeader
    \/ ReadBody
    \/ ReaderLock
    \/ Dispatch
    \/ DeviceDesync
    \/ DeviceCorrupt
    \/ DeviceOversize
    \/ DeviceMaxLen

\* The arguments the goroutines pass to SetGroupControl: group numbers in
\* and out of range, alone and after a record that is in range.
GroupControlCalls ==
    {<<GroupOff(1)>>, <<GroupOff(16)>>, <<GroupOff(0), GroupOff(255)>>}

\* The API: goroutines calling SetGroupControl, up to MaxApiCalls requests.
ApiNext ==
    \/ \E c \in Callers, groups \in GroupControlCalls :
          SetGroupControl(c, groups, MaxApiCalls)
    \/ Background

\* The codec harness at rest, while the client runs.
CodecIdle ==
    /\ pkt = NoPacket
    /\ buf = <<>>
    /\ dec = NoResult
    /\ step = "idle"
    /\ tampered = FALSE
    /\ resized = FALSE

\* The message harness at rest.
MsgIdle ==
    /\ msgFn = "none"
    /\ msgArg = <<>>
    /\ msgRet = NoMsgResult

\* No call of Discover is modelled.
Scanners == 1..NTargets
DiscIdle ==
    /\ discImpl = "buffered"
    /\ dialOk = [t \in Scanners |-> FALSE]
    /\ scanPc = [t \in Scanners |-> "none"]
    /\ resultsCh = <<>>
    /\ chClosed = FALSE
    /\ discPc = "idle"
    /\ discI = 0
    /\ discResults = <<>>
    /\ discCtxDone = FALSE

\* No call of NewClient or Discover is modelled while the client runs.
NewIdle ==
    /\ opts = <<>>
    /\ cfg = Nil
    /\ newPc = "idle"
    /\ optIdx = 0
    /\ newRet = NoNewResult
    /\ dialCalls = <<>>
    /\ readLoops = 0
    /\ DiscIdle

Init ==
    /\ ClientInit
    /\ CodecIdle
    /\ MsgIdle
    /\ NewIdle

Spec == Init /\ [][ClientNext]_vars

SpecClose == Init /\ [][ClosingNext]_vars

SpecApi == Init /\ [][ApiNext]_vars

SpecRead == Init /\ [][ReadingNext]_vars /\ ReaderFairness

SpecInbound == Init /\ [][InboundNext]_vars

SpecWrite == Init /\ [][WritingNext]_vars

SpecStop == Init /\ [][StoppingNext]_vars /\ StoppingFairness

SpecCtx == Init /\ [][CtxNext]_vars

(***************************************************************************)
(* The codec harness: Encode a packet, alter the buffer, Decode it.        *)
(***************************************************************************)
CodecInit ==
    /\ pkt \in SmallPackets \cup LargePackets \cup {ExamplePacket}
    /\ buf = <<>>
    /\ dec = NoResult
    /\ step = "new"
    /\ tampered = FALSE
    /\ resized = FALSE
    /\ ClientInit
    /\ MsgIdle
    /\ NewIdle

\* p.Encode()
EncodeStep ==
    /\ step = "new"
    /\ LET e == Encode(pkt)
       IN  /\ buf' = e.buf
           /\ pkt' = e.p
    /\ step' = "encoded"
    /\ UNCHANGED <<dec, tampered, resized, clientVars, msgVars, newVars>>

\* The buffer on its way to Decode: one byte overwritten,
TamperByte ==
    /\ step = "encoded" /\ ~tampered /\ ~resized
    /\ Len(pkt.Data) <= MaxPayloadLen
    /\ \E i \in 1..Min(Len(buf), TamperSpan), v \in TamperBytes :
          /\ v # buf[i]
          /\ buf' = [buf EXCEPT ![i] = v]
    /\ tampered' = TRUE
    /\ UNCHANGED <<pkt, dec, step, resized, clientVars, msgVars, newVars>>

\* the declared length overwritten,
TamperLength ==
    /\ step = "encoded" /\ ~tampered /\ ~resized
    /\ Len(pkt.Data) <= MaxPayloadLen
    /\ \E l \in DeclaredLens :
          /\ l # Uint16At(buf, 6)
          /\ buf' = SubSeq(buf, 1, 6) \o PutUint16(l) \o SubSeq(buf, 9, Len(buf))
    /\ tampered' = TRUE
    /\ UNCHANGED <<pkt, dec, step, resized, clientVars, msgVars, newVars>>

\* the buffer cut short,
Truncate ==
    /\ step = "encoded" /\ ~resized
    /\ Len(pkt.Data) <= MaxPayloadLen
    /\ \E n \in 0..(Len(buf) - 1) : buf' = SubSeq(buf, 1, n)
    /\ resized' = TRUE
    /\ UNCHANGED <<pkt, dec, step, tampered, clientVars, msgVars, newVars>>

\* or followed by one more byte.
Extend ==
    /\ step = "encoded" /\ ~resized
    /\ Len(pkt.Data) <= MaxPayloadLen
    /\ \E v \in PayloadBytes : buf' = Append(buf, v)
    /\ resized' = TRUE
    /\ UNCHANGED <<pkt, dec, step, tampered, clientVars, msgVars, newVars>>

\* Decode(buf)
DecodeStep ==
    /\ step = "encoded"
    /\ dec' = Decode(buf)
    /\ step' = "decoded"
    /\ UNCHANGED <<pkt, buf, tampered, resized, clientVars, msgVars, newVars>>

CodecNext ==
    \/ EncodeStep
    \/ TamperByte
    \/ TamperLength
    \/ Truncate
    \/ Extend
    \/ DecodeStep

SpecCodec == CodecInit /\ [][CodecNext]_vars

\* The same harness, started as well on packets whose payload is as long as
\* a uint16 can count and one byte longer.
HugePackets ==
    {NewPacket(AddressSendExtended, 0, MsgTypeExtended, Fill(n, 33)) :
        n \in {Uint16Mod - 1, Uint16Mod}}

SizeInit ==
    /\ pkt \in SmallPackets \cup LargePackets \cup HugePackets
    /\ buf = <<>>
    /\ dec = NoResult
    /\ step = "new"
    /\ tampered = FALSE
    /\ resized = FALSE
    /\ ClientInit
    /\ MsgIdle
    /\ NewIdle

SpecSize == SizeInit /\ [][CodecNext]_vars


(***************************************************************************)
(* The message harness: one call of a function of messages.go.             *)
(***************************************************************************)
SeqsOf(S, n) == UNION {[1..k -> S] : k \in 1..n}
Prefixes(seq, lens) == {SubSeq(seq, 1, Min(k, Len(seq))) : k \in lens}

\* Arguments of MarshalGroupControl: every single record over these field
\* values, and sequences of up to MaxRecords of a few of them.
GroupControls ==
    [GroupNumber : {0, 1, 15, 16, 255},
     Power : {Nil, Ptr(0), Ptr(1), Ptr(2), Ptr(3), Ptr(4)},
     Value : {Nil, Ptr(0), Ptr(1), Ptr(2), Ptr(3)},
     Percent : {Nil, Ptr(0), Ptr(50), Ptr(100)}]
GroupControlArgs ==
    {<<>>} \cup {<<g>> : g \in GroupControls}
    \cup SeqsOf({GroupOff(1), GroupOff(16),
                 [GroupNumber |-> 15, Power |-> Ptr(3), Value |-> Ptr(2),
                  Percent |-> Ptr(100)]}, MaxRecords)

\* Arguments of MarshalACControl, fields inside and outside their ranges.
ACControls ==
    [ACNumber : {0, 1, 15, 255},
     Power : {Nil, Ptr(0), Ptr(1), Ptr(2), Ptr(3), Ptr(5), Ptr(6)},
     Mode : {Nil, Ptr(0), Ptr(4), Ptr(16)},
     FanSpeed : {Nil, Ptr(0), Ptr(6), Ptr(16), Ptr(-1)},
     Setpoint : {Nil, Ptr(5), Ptr(22)}]
ACPower(n, v) == [ACNumber |-> n, Power |-> Ptr(v), Mode |-> Nil,
                  FanSpeed |-> Nil, Setpoint |-> Nil]
ACSetpoint(n, v) == [ACNumber |-> n, Power |-> Nil, Mode |-> Nil,
                     FanSpeed |-> Nil, Setpoint |-> Ptr(v)]
ACControlArgs ==
    {<<>>} \cup {<<ac>> : ac \in ACControls}
    \cup {<<ACSetpoint(0, v)>> : v \in 9..36}
    \cup SeqsOf({ACPower(0, 2), ACPower(1, 3),
                 [ACNumber |-> 7, Power |-> Nil, Mode |-> Ptr(4),
                  FanSpeed |-> Ptr(3), Setpoint |-> Ptr(22)]}, MaxRecords)

\* Status payloads: a header that declares a sub type, a repeat count and a
\* repeat length, followed by up to MaxRecords records cut to some length;
\* the records are those of the protocol document's examples and others
\* with every bit set or with temperatures below 50.0 degrees raw.
StatusRecords ==
    {<<0, 0, 0, 0, 0, 0, 128, 0, 0, 0>>,
     <<65, 50, 0, 0, 0, 0, 2, 0, 0, 0>>,
     <<16, 18, 120, 192, 2, 218, 0, 0, 128, 0>>,
     <<255, 255, 255, 255, 255, 255, 255, 255, 255, 255>>,
     <<199, 228, 0, 30, 1, 239, 42, 0, 0, 0>>,
     <<133, 127, 255, 2, 0, 0, 130, 0, 0, 0>>}
StatusHeaders ==
    {RepeatHeader(t, n, l) :
        t \in {SubMsgTypeGroupStatus, SubMsgTypeACStatus, SubMsgTypeACControl},
        n \in 0..(MaxRecords + 1), l \in {0, 1, 6, 7, 8, 10}}
StatusBodies ==
    {<<>>} \cup
    UNION {Prefixes(Concat([i \in 1..MaxRecords |-> r[i]]),
                    {1, 6, 7, 8, 10, 16, 20})
           \cup Prefixes(Concat([i \in 1..MaxRecords |->
                                   SubSeq(r[i], 1, 8)]), {16})
               : r \in [1..MaxRecords -> StatusRecords]}
StatusPayloads ==
    {h \o b : h \in StatusHeaders, b \in StatusBodies}
    \cup UNION {Prefixes(h, 0..7) : h \in StatusHeaders}

\* AC ability payloads: the marker FF 11 and blocks of an AC number, a
\* declared length and some bytes of an ability, then up to 3 more bytes.
\* TestUnmarshalACAbility_SpecExample: AC 0, "UNIT", groups 0..3.
ExampleACAbility ==
    <<255, 17, 0, 24, 85, 78, 73, 84>> \o Fill(12, 0)
        \o <<0, 4, 23, 29, 17, 31, 17, 31>>

AbilityContents ==
    {<<65, 67, 48>> \o Fill(13, 0) \o <<0, 4, 62, 254, 16, 32, 16, 32>>
         \o <<0, 0>>,
     Fill(16, 65) \o Fill(8, 255) \o <<255, 255>>}
AbilityBlocks ==
    {<<a, d>> \o SubSeq(c, 1, n) :
        a \in {0, 1}, d \in {0, 15, 16, 23, 24, 25, 26, 255},
        c \in AbilityContents, n \in {0, 1, 16, 23, 24, 26}}
AbilityGoodBlocks ==
    {<<0, 24>> \o SubSeq(c, 1, 24) : c \in AbilityContents}
AbilityPayloads ==
    {<<255, 17>> \o b : b \in AbilityBlocks}
    \cup {<<255, 17>> \o g \o b : g \in AbilityGoodBlocks, b \in AbilityBlocks}
    \cup {<<255, 17>> \o g \o t :
             g \in AbilityGoodBlocks,
             t \in {<<1>>, <<1, 24>>, <<1, 24, 65>>, <<1, 0>>, <<1, 1, 65>>}}
    \cup Prefixes(<<255, 17, 0, 24>>, 1..3)
    \cup {ExampleACAbility}

\* Group name payloads: the marker FF 12 and records of a group number and
\* eight name bytes, cut to some length.
ExampleGroupName == <<255, 18, 0, 71, 114, 111, 117, 112, 49, 0, 0>>
GroupNamePayloads ==
    {ExampleGroupName} \cup
    UNION {Prefixes(<<255, 18, 0>> \o n1 \o <<1>> \o n2,
                    {1, 2, 3, 10, 11, 19, 20})
               : n1, n2 \in {<<76, 105, 118, 105, 110, 103, 0, 0>>,
                             Fill(8, 66), Fill(8, 0)}}

BytesArgs == StatusPayloads \cup AbilityPayloads \cup GroupNamePayloads

MsgInit ==
    /\ msgFn = "none"
    /\ msgArg \in [kind : {"groups"}, val : GroupControlArgs]
                  \cup [kind : {"acs"}, val : ACControlArgs]
                  \cup [kind : {"bytes"}, val : BytesArgs]
    /\ msgRet = NoMsgResult
    /\ ClientInit
    /\ CodecIdle
    /\ NewIdle

\* MarshalGroupControl(groups)
CallMarshalGroupControl ==
    /\ msgFn = "none"
    /\ msgArg.kind = "groups"
    /\ msgFn' = "MarshalGroupControl"
    /\ msgRet' = LET m == MarshalGroupControl(msgArg.val)
                  IN  [out |-> m.buf, err |-> m.err]
    /\ UNCHANGED <<msgArg, codecVars, newVars, clientVars>>

\* MarshalACControl(acs)
CallMarshalACControl ==
    /\ msgFn = "none"
    /\ msgArg.kind = "acs"
    /\ msgFn' = "MarshalACControl"
    /\ msgRet' = LET m == MarshalACControl(msgArg.val)
                  IN  [out |-> m.buf, err |-> m.err]
    /\ UNCHANGED <<msgArg, codecVars, newVars, clientVars>>

\* UnmarshalGroupStatus(data)
CallUnmarshalGroupStatus ==
    /\ msgFn = "none"
    /\ msgArg.kind = "bytes"
    /\ msgFn' = "UnmarshalGroupStatus"
    /\ msgRet' = UnmarshalGroupStatus(msgArg.val)
    /\ UNCHANGED <<msgArg, codecVars, newVars, clientVars>>

\* UnmarshalACStatus(data)
CallUnmarshalACStatus ==
    /\ msgFn = "none"
    /\ msgArg.kind = "bytes"
    /\ msgFn' = "UnmarshalACStatus"
    /\ msgRet' = UnmarshalACStatus(msgArg.val)
    /\ UNCHANGED <<msgArg, codecVars, newVars, clientVars>>

\* UnmarshalACAbility(data)
CallUnmarshalACAbility ==
    /\ msgFn = "none"
    /\ msgArg.kind = "bytes"
    /\ msgFn' = "UnmarshalACAbility"
    /\ msgRet' = UnmarshalACAbility(msgArg.val)
    /\ UNCHANGED <<msgArg, codecVars, newVars, clientVars>>

\* UnmarshalGroupName(data)
CallUnmarshalGroupName ==
    /\ msgFn = "none"
    /\ msgArg.kind = "bytes"
    /\ msgFn' = "UnmarshalGroupName"
    /\ msgRet' = UnmarshalGroupName(msgArg.val)
    /\ UNCHANGED <<msgArg, codecVars, newVars, clientVars>>

MsgNext ==
    \/ CallMarshalGroupControl
    \/ CallMarshalACControl
    \/ CallUnmarshalGroupStatus
    \/ CallUnmarshalACStatus
    \/ CallUnmarshalACAbility
    \/ CallUnmarshalGroupName

SpecMsg == MsgInit /\ [][MsgNext]_vars

(***************************************************************************)
(* NewClient (SpecNew): one call of NewClient with up to MaxOptions        *)
(* options.                                                                *)
(***************************************************************************)
MaxOptions == 2

Ports == {-1, 0, 1, 80, 9200, 65535, 65536}
Durations == {-Second, -1, 0, 1, Second, 10 * Second}
Loggers == {Nil, Ptr("logger")}
ClientOptions ==
    [name : {"WithPort"}, arg : Ports]
    \cup [name : {"WithConnectTimeout", "WithRequestTimeout"},
          arg : Durations]
    \cup [name : {"WithLogger"}, arg : Loggers]

NewInit ==
    /\ opts \in {<<>>} \cup SeqsOf(ClientOptions, MaxOptions)
    /\ cfg = Nil
    /\ newPc = "idle"
    /\ optIdx = 0
    /\ newRet = NoNewResult
    /\ dialCalls = <<>>
    /\ readLoops = 0
    /\ DiscIdle
    /\ ClientInit
    /\ CodecIdle
    /\ MsgIdle

\* cfg := defaultConfig()
NewClientBegin ==
    /\ newPc = "idle"
    /\ cfg' = Ptr(defaultConfig)
    /\ newPc' = "options"
    /\ UNCHANGED <<opts, optIdx, newRet, dialCalls, readLoops>>
    /\ UNCHANGED <<codecVars, msgVars, clientVars, discVars>>

\* One turn of "for _, opt := range opts": the option either changes the
\* configuration or makes NewClient return its error.
NewClientOption ==
    /\ newPc = "options"
    /\ optIdx < Len(opts)
    /\ LET applied == ApplyOption(opts[optIdx + 1], Deref(cfg))
       IN  /\ cfg' = Ptr(applied.cfg)
           /\ optIdx' = optIdx + 1
           /\ IF applied.err # "nil"
              THEN /\ newRet' = [client |-> Nil,
                                 err |-> <<"invalid option", applied.err>>]
                   /\ newPc' = "done"
              ELSE UNCHANGED <<newRet, newPc>>
    /\ UNCHANGED <<opts, dialCalls, readLoops>>
    /\ UNCHANGED <<codecVars, msgVars, clientVars, discVars>>

\* net.DialTimeout("tcp", addr, cfg.connectTimeout), which connects or fails.
NewClientDial ==
    /\ newPc = "options"
    /\ optIdx = Len(opts)
    /\ dialCalls' = Append(dialCalls, [port |-> Deref(cfg).port,
                                       timeout |-> Deref(cfg).connectTimeout])
    /\ \E connected \in BOOLEAN :
          IF connected
          THEN /\ newPc' = "start"
               /\ UNCHANGED newRet
          ELSE /\ newPc' = "done"
               /\ newRet' = [client |-> Nil, err |-> <<"dial error">>]
    /\ UNCHANGED <<opts, cfg, optIdx, readLoops>>
    /\ UNCHANGED <<codecVars, msgVars, clientVars, discVars>>

\* c := &Client{...}; go c.readLoop(); return c, nil
NewClientStart ==
    /\ newPc = "start"
    /\ readLoops' = readLoops + 1
    /\ newRet' = [client |-> Ptr([port |-> Deref(cfg).port,
                                  requestTimeout |->
                                      Deref(cfg).requestTimeout,
                                  logger |-> Deref(cfg).logger]),
                  err |-> <<"nil">>]
    /\ newPc' = "done"
    /\ UNCHANGED <<opts, cfg, optIdx, dialCalls>>
    /\ UNCHANGED <<codecVars, msgVars, clientVars, discVars>>

NewNext ==
    \/ NewClientBegin
    \/ NewClientOption
    \/ NewClientDial
    \/ NewClientStart

SpecNew == NewInit /\ [][NewNext]_vars

(***************************************************************************)
(* Discover (discovery.go).  The file holds the function twice: lines      *)
(* 18-80 send the results on an unbuffered channel and collect count of    *)
(* them in a select with ctx.Done(); lines 118-194 send them on a channel  *)
(* buffered for all of them, close it when every goroutine is done and     *)
(* range over it.  One address stands for one scan goroutine.              *)
(***************************************************************************)
DiscInit ==
    /\ discImpl \in {"unbuffered", "buffered"}
    /\ dialOk \in [Scanners -> BOOLEAN]
    /\ scanPc = [t \in Scanners |-> "none"]
    /\ resultsCh = <<>>
    /\ chClosed = FALSE
    /\ discPc = "start"
    /\ discI = 0
    /\ discResults = <<>>
    /\ discCtxDone = FALSE
    /\ opts = <<>>
    /\ cfg = Nil
    /\ newPc = "idle"
    /\ optIdx = 0
    /\ newRet = NoNewResult
    /\ dialCalls = <<>>
    /\ readLoops = 0
    /\ ClientInit
    /\ CodecIdle
    /\ MsgIdle

ctorVars == <<opts, cfg, newPc, optIdx, newRet, dialCalls, readLoops>>

\* count: the goroutines Discover started.
Started == {t \in Scanners : scanPc[t] # "none"}
DiscReturned == discPc \in {"returned", "failed"}

\* ips, err := getLocalIPs(), which fails, finds no address to scan from, or
\* finds one; then the loop that starts a goroutine for every target.
DiscoverStart ==
    /\ discPc = "start"
    /\ \/ /\ discPc' = "failed"
          /\ UNCHANGED scanPc
       \/ /\ discPc' = "collect"
          /\ \E n \in {0, NTargets} :
                scanPc' = [t \in Scanners |-> IF t <= n THEN "dial" ELSE "none"]
    /\ UNCHANGED <<discImpl, dialOk, resultsCh, chClosed, discI, discResults,
                   discCtxDone, ctorVars, codecVars, msgVars, clientVars>>

\* The deadline of ctx passes or the caller cancels it.
DiscCtxEnd ==
    /\ discPc \in {"start", "collect"}
    /\ ~discCtxDone
    /\ discCtxDone' = TRUE
    /\ UNCHANGED <<discImpl, dialOk, scanPc, resultsCh, chClosed, discPc,
                   discI, discResults, ctorVars, codecVars, msgVars,
                   clientVars>>

\* d.DialContext(dialCtx, ...) returns, within 200 ms: with a connection
\* when the device accepted, with an error otherwise and when ctx ended.
ScanDial(t) ==
    /\ scanPc[t] = "dial"
    /\ \E ok \in {dialOk[t] /\ ~discCtxDone, dialOk[t]} :
          scanPc' = [scanPc EXCEPT ![t] = IF ok THEN "sendOk" ELSE "sendFail"]
    /\ UNCHANGED <<discImpl, dialOk, resultsCh, chClosed, discPc, discI,
                   discResults, discCtxDone, ctorVars, codecVars, msgVars,
                   clientVars>>

\* The scanResult goroutine t sends.
ScanResult(t) == [ip |-> t, ok |-> scanPc[t] = "sendOk"]

\* if res.ok { results = append(results, DiscoveryResult{IP: res.ip}) }
AppendIfOk(res) == IF res.ok THEN Append(discResults, res.ip) ELSE discResults

\* Lines 18-80.  resultsCh <- scanResult{...} on the unbuffered channel
\* completes together with case res := <-resultsCh of the collecting loop.
ScanHandOver(t) ==
    /\ discImpl = "unbuffered"
    /\ scanPc[t] \in {"sendOk", "sendFail"}
    /\ discPc = "collect"
    /\ discI < Cardinality(Started)
    /\ discResults' = AppendIfOk(ScanResult(t))
    /\ discI' = discI + 1
    /\ scanPc' = [scanPc EXCEPT ![t] = "done"]
    /\ UNCHANGED <<discImpl, dialOk, resultsCh, chClosed, discPc, discCtxDone,
                   ctorVars, codecVars, msgVars, clientVars>>

\* case <-ctx.Done(): break collectResults; return results, nil
CollectBreak ==
    /\ discImpl = "unbuffered"
    /\ discPc = "collect"
    /\ discI < Cardinality(Started)
    /\ discCtxDone
    /\ discPc' = "returned"
    /\ UNCHANGED <<discImpl, dialOk, scanPc, resultsCh, chClosed, discI,
                   discResults, discCtxDone, ctorVars, codecVars, msgVars,
                   clientVars>>

\* The loop has run count times: return results, nil
CollectAll ==
    /\ discImpl = "unbuffered"
    /\ discPc = "collect"
    /\ discI = Cardinality(Started)
    /\ discPc' = "returned"
    /\ UNCHANGED <<discImpl, dialOk, scanPc, resultsCh, chClosed, discI,
                   discResults, discCtxDone, ctorVars, codecVars, msgVars,
                   clientVars>>

\* Lines 118-194.  resultsCh <- scanResult{...} on the channel made with
\* room for count results; defer wg.Done().
ScanSend(t) ==
    /\ discImpl = "buffered"
    /\ scanPc[t] \in {"sendOk", "sendFail"}
    /\ Len(resultsCh) < Cardinality(Started)
    /\ resultsCh' = Append(resultsCh, ScanResult(t))
    /\ scanPc' = [scanPc EXCEPT ![t] = "done"]
    /\ UNCHANGED <<discImpl, dialOk, chClosed, discPc, discI, discResults,
                   discCtxDone, ctorVars, codecVars, msgVars, clientVars>>

\* go func() { wg.Wait(); close(resultsCh) }()
CloseResults ==
    /\ discImpl = "buffered"
    /\ discPc \in {"collect", "returned"}
    /\ ~chClosed
    /\ \A t \in Started : scanPc[t] = "done"
    /\ chClosed' = TRUE
    /\ UNCHANGED <<discImpl, dialOk, scanPc, resultsCh, discPc, discI,
                   discResults, discCtxDone, ctorVars, codecVars, msgVars,
                   clientVars>>

\* One turn of "for res := range resultsCh": take a result, then return if
\* ctx has ended.
CollectNext ==
    /\ discImpl = "buffered"
    /\ discPc = "collect"
    /\ resultsCh # <<>>
    /\ discResults' = AppendIfOk(Head(resultsCh))
    /\ resultsCh' = Tail(resultsCh)
    /\ discPc' = IF discCtxDone THEN "returned" ELSE "collect"
    /\ UNCHANGED <<discImpl, dialOk, scanPc, chClosed, discI, discCtxDone,
                   ctorVars, codecVars, msgVars, clientVars>>

\* The range ends on the closed, empty channel: return results, nil
CollectClosed ==
    /\ discImpl = "buffered"
    /\ discPc = "collect"
    /\ resultsCh = <<>>
    /\ chClosed
    /\ discPc' = "returned"
    /\ UNCHANGED <<discImpl, dialOk, scanPc, resultsCh, chClosed, discI,
                   discResults, discCtxDone, ctorVars, codecVars, msgVars,
                   clientVars>>

DiscNext ==
    \/ DiscoverStart
    \/ DiscCtxEnd
    \/ \E t \in Scanners : ScanDial(t)
    \/ \E t \in Scanners : ScanHandOver(t)
    \/ CollectBreak
    \/ CollectAll
    \/ \E t \in Scanners : ScanSend(t)
    \/ CloseResults
    \/ CollectNext
    \/ CollectClosed

\* Every goroutine is scheduled: Discover, the scan goroutines (a dial ends
\* within its 200 ms) and the goroutine that closes the channel go on
\* whenever they can.
DiscFairness ==
    /\ WF_vars(DiscoverStart)
    /\ \A t \in Scanners : WF_vars(ScanDial(t))
    /\ \A t \in Scanners : WF_vars(ScanHandOver(t))
    /\ WF_vars(CollectBreak)
    /\ WF_vars(CollectAll)
    /\ \A t \in Scanners : WF_vars(ScanSend(t))
    /\ WF_vars(CloseResults)
    /\ WF_vars(CollectNext)
    /\ WF_vars(CollectClosed)

SpecDiscover == DiscInit /\ [][DiscNext]_vars /\ DiscFairness

(***************************************************************************)
(* Properties of the request/response correlation (Spec).                  *)
(***************************************************************************)

\* C1: a frame handed to a sendRequest call, on its respCh or as its return
\* value, carries the message id that call allocated, whatever the number of
\* calls in flight and the order in which the device answers.
C1_CorrelationById ==
    \A c \in Callers :
        /\ result[c].kind = "ok" => result[c].pkt.MsgID = msgID[c]
        /\ \A i \in 1..Len(respCh[c]) : respCh[c][i].MsgID = msgID[c]

\* Two requests in flight, the later one written answered first: its caller
\* has its own frame while the earlier caller still waits.
C1_AnsweredOutOfOrder ==
    \E c, u \in Callers :
        /\ c # u
        /\ pc[u] = "wait" /\ respCh[u] = <<>>
        /\ pc[c] = "done" /\ result[c].kind = "ok"
        /\ result[c].pkt.MsgID = msgID[c] /\ msgID[c] # msgID[u]
        /\ \E k1, k2 \in 1..Len(written) :
              k1 < k2 /\ written[k1] = Encoded(u) /\ written[k2] = Encoded(c)

\* C2: id-reuse isolation.  After a full turn of the id counter (IdSpace
\* calls), with every call but u's answered, the next call never receives
\* the response to u's request (the device's answer to call n carries the
\* data <<n>>).
C2_IdReuseIsolation ==
    \A c, u \in Callers :
        (/\ c # u
         /\ callNo[u] \in 1..IdSpace
         /\ pc[u] = "wait"
         /\ callNo[c] = IdSpace + 1
         /\ (1..IdSpace) \ {callNo[u]} \subseteq delivered
         /\ result[c].kind = "ok")
        => result[c].pkt.Data # <<callNo[u]>>

\* C3: a call leaves its wait only with a frame from its respCh or through
\* its timer, which fires only once requestTimeout has elapsed; and the step
\* that returns the timeout error leaves no slot for the call's id in pending.
C3_TimeoutAtDeadline ==
    [][\A c \in Callers :
          /\ (pc[c] = "wait" /\ pc'[c] # "wait") =>
                \/ respCh[c] # <<>> /\ result'[c].kind = "ok"
                \/ elapsed[c] >= RequestTimeout /\ pc'[c] = "timedout"
          /\ (result[c].kind # "Timeout" /\ result'[c].kind = "Timeout") =>
                /\ elapsed[c] >= RequestTimeout
                /\ msgID[c] \notin DOMAIN pending']_vars

\* A call that was never answered has returned the timeout error, at its
\* deadline, and its slot is gone.
C3_TimedOut ==
    \E c \in Callers :
        /\ pc[c] = "done" /\ result[c].kind = "Timeout"
        /\ callNo[c] \notin delivered
        /\ elapsed[c] = RequestTimeout
        /\ msgID[c] \notin DOMAIN pending

(***************************************************************************)
(* Properties of Close (SpecClose).                                        *)
(***************************************************************************)
ReturnsFromClose(q) == closePc[q] = "locked" /\ closePc'[q] = "idle"

\* C4: Close is idempotent under any interleaving of the goroutines calling
\* it and the reader: closeCh is closed and the socket released exactly when
\* the flag is set, never twice; the flag once set stays set; and a Close
\* call that finds it set returns nil and changes nothing.
C4_CloseIdempotent ==
    /\ [](/\ closeChCloses <= 1 /\ connCloses <= 1
          /\ isClosed <=> closeChCloses = 1
          /\ isClosed <=> connCloses = 1)
    /\ [][/\ isClosed => isClosed'
          /\ \A q \in CloseProcs :
                ReturnsFromClose(q) =>
                    IF isClosed
                    THEN /\ closeRet'[q] = "nil"
                         /\ UNCHANGED <<isClosed, closeChCloses, connCloses>>
                    ELSE /\ closeRet'[q] = "conn.Close()"
                         /\ isClosed']_vars

\* One goroutine closed the client and another one's Close returned nil.
C4_ClosedTwice ==
    \E q1, q2 \in CloseProcs :
        /\ q1 # q2
        /\ closeRet[q1] = "conn.Close()" /\ closeRet[q2] = "nil"
        /\ isClosed /\ closeChCloses = 1 /\ connCloses = 1

\* C5 as stated: a caller that was waiting unanswered when the connection
\* closed returns nothing but the timeout error.
C5_WaitersOnlyTimeOut ==
    \A c \in atClose.waiting : pc[c] = "done" => result[c].kind = "Timeout"

\* C5: closing does not fail the callers waiting in sendRequest.  A caller
\* that was waiting unanswered when the connection closed stays in its wait
\* until its own deadline and then returns the timeout error, unless the
\* reader hands it the frame it had already read when the connection closed;
\* and a Close call changes neither pending nor any caller.
C5_CloseLeavesWaiters ==
    /\ [](\A c \in atClose.waiting :
            /\ pc[c] \in {"wait", "timedout", "done"}
            /\ pc[c] = "timedout" => elapsed[c] >= RequestTimeout
            /\ pc[c] = "done" =>
                  \/ result[c].kind = "Timeout" /\ elapsed[c] >= RequestTimeout
                  \/ /\ result[c].kind = "ok"
                     /\ atClose.inHand # NoPacket
                     /\ result[c].pkt = atClose.inHand)
    /\ [][\A q \in CloseProcs :
            ReturnsFromClose(q) => UNCHANGED <<pending, pc, respCh, result>>]_vars

\* A caller that was waiting when the connection closed has timed out, with
\* its slot removed by its own cleanup.
C5_WaiterTimedOut ==
    \E c \in atClose.waiting :
        /\ isClosed
        /\ pc[c] = "done" /\ result[c].kind = "Timeout"
        /\ msgID[c] \notin DOMAIN pending

\* C6: a sendRequest call begun on a closed client never waits: its write
\* fails and it returns the write error; and every step that returns the
\* write error leaves no slot for the call's id in pending and has written
\* nothing.
C6_SendAfterClose ==
    /\ [](\A c \in Callers :
            startedClosed[c] =>
                /\ pc[c] \in {"register", "write", "werr", "done"}
                /\ pc[c] = "done" => result[c].kind = "WriteErr")
    /\ [][\A c \in Callers :
            (result[c].kind # "WriteErr" /\ result'[c].kind = "WriteErr") =>
                /\ msgID[c] \notin DOMAIN pending'
                /\ written' = written]_vars

\* A call begun after Close has returned the write error and left no slot.
C6_FailedSend ==
    \E c \in Callers :
        /\ startedClosed[c]
        /\ pc[c] = "done" /\ result[c].kind = "WriteErr"
        /\ msgID[c] \notin DOMAIN pending

(***************************************************************************)
(* Properties of Encode and Decode (SpecCodec).                            *)
(***************************************************************************)
DeclaredLen == Uint16At(buf, 6)
WellFramed ==
    /\ Len(buf) >= 10
    /\ Uint16At(buf, 0) = HeaderBytes
    /\ Len(buf) >= 8 + DeclaredLen + 2

\* C7: round trip.  For a packet whose payload is at most MaxDataLen bytes,
\* Decode of the buffer Encode returned succeeds and returns the packet,
\* field for field (with the CRC Encode stored in it).
C7_RoundTrip ==
    (step = "decoded" /\ ~tampered /\ ~resized /\ Len(pkt.Data) <= MaxDataLen)
        => /\ dec.err = "nil"
           /\ dec.pkt = pkt
           /\ dec.pkt.CRC = Checksum(EncodeCrcData(pkt))

\* The round trip of a payload of exactly MaxDataLen bytes.
C7_RoundTripAtMax ==
    /\ step = "decoded" /\ ~tampered /\ ~resized
    /\ Len(pkt.Data) = MaxDataLen
    /\ dec.err = "nil" /\ dec.pkt = pkt

\* C8: for a buffer of at least 10 bytes with the right magic, whatever
\* length it declares, Decode returns ErrInvalidLength when the buffer holds
\* fewer than 8 + length + 2 bytes.
C8_ShortFrameRejected ==
    (/\ step = "decoded"
     /\ Len(buf) >= 10
     /\ Uint16At(buf, 0) = HeaderBytes
     /\ Len(buf) < 8 + DeclaredLen + 2)
        => dec.err = "ErrInvalidLength"

\* C9: Decode checks in a fixed order and returns a packet or an error,
\* never both: under 10 bytes ErrInvalidLength; else wrong magic
\* ErrInvalidHeader; else, for a buffer that holds the frame it declares, a
\* stored checksum different from the one computed over address..payload
\* gives ErrInvalidChecksum with both values; and a packet is returned
\* exactly when there is no error, which takes every check to pass.
C9_DecodeAllOrNothing ==
    step = "decoded" =>
        /\ Len(buf) < 10 => dec.err = "ErrInvalidLength"
        /\ (Len(buf) >= 10 /\ Uint16At(buf, 0) # HeaderBytes)
              => dec.err = "ErrInvalidHeader"
        /\ WellFramed =>
              LET stored   == Uint16At(buf, 8 + DeclaredLen)
                  computed == Checksum(SubSeq(buf, 3, 8 + DeclaredLen))
              IN  IF stored # computed
                  THEN /\ dec.err = "ErrInvalidChecksum"
                       /\ dec.expected = computed
                       /\ dec.got = stored
                  ELSE /\ dec.err = "nil"
                       /\ dec.pkt.CRC = stored
                       /\ dec.pkt.DataLen = DeclaredLen
                       /\ dec.pkt.Data = SubSeq(buf, 9, 8 + DeclaredLen)
        /\ dec.err = "nil" <=> dec.pkt # NoPacket
        /\ dec.err = "nil" => WellFramed

\* A buffer with one byte changed was refused for its checksum, with the
\* two differing values reported.
C9_ChecksumMismatchReported ==
    /\ step = "decoded" /\ tampered /\ WellFramed
    /\ dec.err = "ErrInvalidChecksum"
    /\ dec.expected # dec.got
    /\ dec.pkt = NoPacket

\* C10: Encode of a packet whose payload is longer than MaxDataLen produces
\* no bytes.
C10_EncodeRejectsLongPayload ==
    (step \in {"encoded", "decoded"} /\ Len(pkt.Data) > MaxDataLen)
        => buf = <<>>

(***************************************************************************)
(* Properties of the API methods (SpecApi).                                *)
(***************************************************************************)
\* C11: a SetGroupControl call given a group number above 15 returns the
\* range error in the step that begins it, and that step allocates no
\* message id, registers no pending slot and writes no byte: the id counter,
\* the pending table and the stream of written bytes are unchanged.
C11_RejectedBeforeSend ==
    [][\A c \in Callers :
          (/\ call[c] = NoCall
           /\ call'[c].method = "SetGroupControl"
           /\ \E i \in 1..Len(call'[c].groups) :
                 call'[c].groups[i].GroupNumber > 15)
          => /\ result'[c].kind = "invalid group number"
             /\ pc'[c] = "done"
             /\ UNCHANGED <<nextMsgID, pending, written>>]_vars

\* A call was rejected while another goroutine's request was pending.
C11_Rejected ==
    \E c, u \in Callers :
        /\ result[c].kind = "invalid group number"
        /\ Len(call[c].groups) = 2
        /\ pc[u] = "wait"
        /\ msgID[u] \in DOMAIN pending
        /\ written # <<>>

(***************************************************************************)
(* Properties of Checksum and of the layout Encode writes (SpecCodec).     *)
(***************************************************************************)
\* The CRC-16 with polynomial 0xA001 (reflected 0x8005) as a shift register
\* fed one message bit at a time, each byte's lowest bit first: the bit
\* shifted out, XORed with the message bit, decides whether the polynomial
\* is XORed in.
CrcRefBit(reg, bit) ==
    IF (reg + bit) % 2 = 1 THEN Xor(reg \div 2, CrcPoly) ELSE reg \div 2

RECURSIVE CrcRefByte(_, _, _)
CrcRefByte(reg, b, i) ==
    IF i = 8 THEN reg
    ELSE CrcRefByte(CrcRefBit(reg, (b \div (2 ^ i)) % 2), b, i + 1)

RECURSIVE CrcRefRange(_, _, _, _)
CrcRefRange(reg, data, lo, hi) ==
    IF lo > hi \/ reg < 0 THEN reg
    ELSE IF lo = hi THEN CrcRefByte(reg, data[lo], 0)
    ELSE LET mid == (lo + hi) \div 2
         IN  CrcRefRange(CrcRefRange(reg, data, lo, mid), data, mid + 1, hi)

CrcReference(data) == CrcRefRange(65535, data, 1, Len(data))

\* The bytes "123456789", whose CRC-16 with seed 0xFFFF, polynomial 0xA001
\* and no final XOR is 0x4B37, and the checksummed bytes of the example
\* frame, 80B001C0000C200000000001000401020000.
CheckString == <<49, 50, 51, 52, 53, 54, 55, 56, 57>>
ExampleCrcData == <<128, 176, 1, 192, 0, 12>> \o ExampleData
ChecksumVectors ==
    /\ Checksum(ExampleCrcData) = 25853
    /\ Checksum(CheckString) = 19255
    /\ Checksum(<<>>) = 65535

\* C12: Checksum is the CRC-16 with seed 0xFFFF and polynomial 0xA001, no
\* final XOR: for the bytes of every buffer, and for the bytes Encode
\* checksums, it equals the reference, the result fits in 16 bits, and for
\* 80B001C0000C200000000001000401020000 it is 0x64FD.
C12_ChecksumIsCrc16 ==
    /\ ChecksumVectors
    /\ step # "new" =>
          /\ Checksum(buf) = CrcReference(buf)
          /\ Checksum(buf) \in 0..65535
          /\ Checksum(EncodeCrcData(pkt)) = CrcReference(EncodeCrcData(pkt))
          /\ pkt.CRC \in 0..65535

\* Encode checksummed the example packet: its CRC field is 0x64FD.
C12_ExampleChecksummed ==
    /\ step = "encoded" /\ ~tampered /\ ~resized
    /\ EncodeCrcData(pkt) = ExampleCrcData
    /\ pkt.CRC = 25853

\* 555580b001c0000c20000000000100040102000064fd
ExampleFrame ==
    <<85, 85, 128, 176, 1, 192, 0, 12, 32, 0, 0, 0, 0, 1, 0, 4, 1, 2, 0, 0,
      100, 253>>

\* C13: the buffer Encode returns is magic 0x5555, address (2 bytes, big
\* endian), message id, message type, payload length (2 bytes, big endian),
\* payload, checksum (2 bytes, big endian); the checksum covers address
\* through payload and not the magic; the buffer has 10 + len(payload)
\* bytes; the example packet encodes to
\* 555580b001c0000c20000000000100040102000064fd.
C13_EncodeLayout ==
    (step = "encoded" /\ ~tampered /\ ~resized) =>
        LET n == Len(pkt.Data)
        IN  /\ Len(buf) = 10 + n
            /\ buf[1] = 85 /\ buf[2] = 85
            /\ buf[3] = pkt.Address \div 256 /\ buf[4] = pkt.Address % 256
            /\ buf[5] = pkt.MsgID
            /\ buf[6] = pkt.MsgType
            /\ buf[7] = n \div 256 /\ buf[8] = n % 256
            /\ SubSeq(buf, 9, 8 + n) = pkt.Data
            /\ buf[9 + n] * 256 + buf[10 + n]
                  = CrcReference(SubSeq(buf, 3, 8 + n))
            /\ (pkt.Data = ExampleData /\ pkt.MsgID = 1
                /\ pkt.Address = AddressSendStandard
                /\ pkt.MsgType = MsgTypeControlStatus) => buf = ExampleFrame

\* Encode returned the frame of the example packet.
C13_ExampleEncoded ==
    /\ step = "encoded" /\ ~tampered /\ ~resized
    /\ pkt = [ExamplePacket EXCEPT !.CRC = 25853]
    /\ buf = ExampleFrame

(***************************************************************************)
(* Properties of the message encoders and decoders (SpecMsg).              *)
(***************************************************************************)
\* The sub type a status decoder accepts.
OwnSubType(fn) ==
    IF fn = "UnmarshalGroupStatus" THEN SubMsgTypeGroupStatus
    ELSE SubMsgTypeACStatus

\* C14: UnmarshalGroupStatus and UnmarshalACStatus, given a payload of their
\* own sub type with any declared repeat count and per-record length (zero
\* and lengths shorter than a record's fields included), either return the
\* decoded records or fail with ErrInvalidLength; they never index outside
\* the buffer or a record, that is, they never panic.
C14_StatusDecodersCheckLengths ==
    (/\ msgFn \in {"UnmarshalGroupStatus", "UnmarshalACStatus"}
     /\ Len(msgArg.val) >= 1
     /\ msgArg.val[1] = OwnSubType(msgFn))
        => \/ msgRet.err = "ErrInvalidLength"
           \/ /\ msgRet.err = "nil"
              /\ Len(msgRet.out) = Uint16At(msgArg.val, 4)

\* A block of an AC ability payload, walked from the block header at offset
\* o, declares more bytes than the payload still holds.
RECURSIVE BlockOverruns(_, _)
BlockOverruns(data, o) ==
    IF o + 2 > Len(data) THEN FALSE
    ELSE IF o + 2 + data[o + 2] > Len(data) THEN TRUE
    ELSE BlockOverruns(data, o + 2 + data[o + 2])

\* C15: UnmarshalACAbility, given a payload that begins FF 11, never panics
\* whatever length a block declares (lengths below 24 included), and when a
\* block declares more bytes than remain it fails with ErrInvalidLength and
\* returns no record.
C15_ACAbilityAllOrNothing ==
    (/\ msgFn = "UnmarshalACAbility"
     /\ Len(msgArg.val) >= 2
     /\ msgArg.val[1] = 255 /\ msgArg.val[2] = ExtMsgTypeACAbility)
        => /\ msgRet.err # "panic"
           /\ BlockOverruns(msgArg.val, 2)
                 => (msgRet.err = "ErrInvalidLength" /\ msgRet.out = <<>>)

Decoders ==
    {"UnmarshalGroupStatus", "UnmarshalACStatus", "UnmarshalACAbility",
     "UnmarshalGroupName"}

\* The payload's leading sub type byte, or its FF-plus-sub-type marker, is
\* not the one decoder fn accepts.
ForeignPayload(fn, data) ==
    /\ Len(data) >= 1
    /\ IF fn \in {"UnmarshalGroupStatus", "UnmarshalACStatus"}
       THEN data[1] # OwnSubType(fn)
       ELSE \/ data[1] # 255
            \/ /\ Len(data) >= 2
               /\ data[2] # (IF fn = "UnmarshalACAbility"
                             THEN ExtMsgTypeACAbility ELSE ExtMsgTypeGroupName)

\* The error with which decoder fn reports a foreign sub type or marker.
MismatchError(fn) ==
    IF fn = "UnmarshalACAbility" THEN "invalid ac ability header"
    ELSE IF fn = "UnmarshalGroupName" THEN "invalid group name header"
    ELSE "invalid sub type"

\* C16: every decoder, given a non-empty payload whose leading sub type byte
\* or FF-plus-sub-type marker is not its own, fails with its sub type
\* mismatch error, whatever the length of the payload, and decodes no record.
C16_SubtypeCheckedFirst ==
    (msgFn \in Decoders /\ ForeignPayload(msgFn, msgArg.val))
        => (msgRet.err = MismatchError(msgFn) /\ msgRet.out = <<>>)

\* The codes of the protocol for a group's setting value (decrease 010,
\* increase 011, set 100) and power (next 001, off 010, on 011, turbo 101),
\* by the values of the GroupControl fields; 0 for an absent field.
SettingBits(ptr) ==
    IF ptr = Nil THEN 0
    ELSE CASE Deref(ptr) = 0 -> 2 [] Deref(ptr) = 1 -> 3 [] Deref(ptr) = 2 -> 4
PowerBits(ptr) ==
    IF ptr = Nil THEN 0
    ELSE CASE Deref(ptr) = 0 -> 1 [] Deref(ptr) = 1 -> 2
           [] Deref(ptr) = 2 -> 3 [] Deref(ptr) = 3 -> 5

\* The fields of a GroupControl hold values the protocol defines.
GroupControlInDomain(g) ==
    /\ g.Value \in {Nil, Ptr(0), Ptr(1), Ptr(2)}
    /\ g.Power \in {Nil, Ptr(0), Ptr(1), Ptr(2), Ptr(3)}
    /\ g.Percent = Nil \/ Deref(g.Percent) \in 0..100

\* C17: MarshalGroupControl of N records returns 8 + 4N bytes: sub type
\* 0x20, reserved 0, normal length 0, repeat count N and repeat length 4 (big
\* endian), then per record byte1 = group number, byte2 = setting value in
\* bits 8-6 and power in bits 3-1, byte3 = percent, byte4 = 0; a group number
\* above 15 in any record fails the whole call with the range error and no
\* bytes; {group 1, power off} gives 200000000001000401020000.
C17_GroupControlLayout ==
    (msgFn = "MarshalGroupControl") =>
        LET groups == msgArg.val
            n == Len(groups)
            out == msgRet.out
        IN  IF \E i \in 1..n : groups[i].GroupNumber > 15
            THEN msgRet.err = "invalid group number" /\ out = <<>>
            ELSE /\ msgRet.err = "nil"
                 /\ Len(out) = 8 + 4 * n
                 /\ SubSeq(out, 1, 8)
                       = <<32, 0, 0, 0, n \div 256, n % 256, 0, 4>>
                 /\ \A i \in 1..n :
                       GroupControlInDomain(groups[i]) =>
                          /\ out[4 * i + 5] = groups[i].GroupNumber
                          /\ out[4 * i + 6] \div 32
                                = SettingBits(groups[i].Value)
                          /\ (out[4 * i + 6] \div 8) % 4 = 0
                          /\ out[4 * i + 6] % 8 = PowerBits(groups[i].Power)
                          /\ out[4 * i + 7]
                                = (IF groups[i].Percent = Nil THEN 0
                                   ELSE Deref(groups[i].Percent))
                          /\ out[4 * i + 8] = 0
                 /\ groups = <<GroupOff(1)>> => out = ExampleData

\* MarshalGroupControl returned the example payload.
C17_GroupOffMarshalled ==
    /\ msgFn = "MarshalGroupControl"
    /\ msgArg.val = <<GroupOff(1)>>
    /\ msgRet = [out |-> ExampleData, err |-> "nil"]

\* The declared repeat count and per-record length of a status payload, and
\* byte k (1, 2, ...) of its record i (1, 2, ...).
RepeatCount(data) == Uint16At(data, 4)
RepeatLen(data) == Uint16At(data, 6)
RecordByte(data, i, k) == data[8 + (i - 1) * RepeatLen(data) + k]

\* A status payload of sub type t that holds the records it declares, each
\* long enough for the seven bytes a record's fields take.
WellFormedStatus(data, t) ==
    /\ Len(data) >= 8
    /\ data[1] = t
    /\ RepeatLen(data) >= 7
    /\ Len(data) >= 8 + RepeatCount(data) * RepeatLen(data)

\* 210000000002000800000000000080004132000000000200
ExampleGroupStatus ==
    <<33, 0, 0, 0, 0, 2, 0, 8, 0, 0, 0, 0, 0, 0, 128, 0,
      65, 50, 0, 0, 0, 0, 2, 0>>

\* C18: UnmarshalGroupStatus returns exactly as many records as the repeat
\* count declares, in payload order, with power = bits 8-7 of byte 1, group
\* number = bits 6-1 of byte 1, percent = bits 7-1 of byte 2, turboSupport =
\* bit 8 of byte 7 and spill = bit 2 of byte 7; the example payload yields
\* {group 0, off, 0%, turboSupport, no spill} and {group 1, on, 50%, no
\* turboSupport, spill}.
C18_GroupStatusFields ==
    (msgFn = "UnmarshalGroupStatus") =>
        LET data == msgArg.val
            out == msgRet.out
        IN  /\ WellFormedStatus(data, SubMsgTypeGroupStatus)
                  => msgRet.err = "nil"
            /\ msgRet.err = "nil" =>
                  /\ Len(out) = RepeatCount(data)
                  /\ \A i \in 1..Len(out) :
                        /\ out[i].Power = RecordByte(data, i, 1) \div 64
                        /\ out[i].GroupNumber = RecordByte(data, i, 1) % 64
                        /\ out[i].Percent = RecordByte(data, i, 2) % 128
                        /\ out[i].TurboSupport
                              = (RecordByte(data, i, 7) \div 128 = 1)
                        /\ out[i].Spill
                              = ((RecordByte(data, i, 7) \div 2) % 2 = 1)
            /\ data = ExampleGroupStatus =>
                  out = <<[GroupNumber |-> 0, Power |-> 0, Percent |-> 0,
                           TurboSupport |-> TRUE, Spill |-> FALSE],
                          [GroupNumber |-> 1, Power |-> 1, Percent |-> 50,
                           TurboSupport |-> FALSE, Spill |-> TRUE]>>

\* UnmarshalGroupStatus decoded the two records of the example payload.
C18_ExampleGroupsDecoded ==
    /\ msgFn = "UnmarshalGroupStatus"
    /\ msgArg.val = ExampleGroupStatus
    /\ msgRet.err = "nil"
    /\ Len(msgRet.out) = 2
    /\ msgRet.out[2].Percent = 50

\* Bit b (1 is the lowest) of byte v is set.
BitSet(v, b) == (v \div (2 ^ (b - 1))) % 2 = 1

\* q is x / 10 truncated toward zero: what is left of x has the sign of x
\* and is less than 10 in size.
TruncatedTenth(q, x) ==
    IF x >= 0 THEN x - 10 * q \in 0..9 ELSE x - 10 * q \in -9..0

\* The temperature UnmarshalACStatus decodes from the raw value of bytes 5-6.
DecodedTemperature(raw) ==
    ACStatusOf(<<0, 0, 0, 0, raw \div 256, raw % 256, 0>>).Temperature

\* For every raw value of 16 bits the temperature is (raw - 500) / 10
\* truncated toward zero: -50 for 0, 0 for 491..509, 6503 for 65535.
AllTemperaturesTruncate ==
    /\ \A raw \in 0..65535 :
          TruncatedTenth(DecodedTemperature(raw), raw - 500)
    /\ DecodedTemperature(0) = -50
    /\ DecodedTemperature(491) = 0
    /\ DecodedTemperature(65535) = 6503

\* 230000000001000A 101278C002DA00008000
ExampleACStatus ==
    <<35, 0, 0, 0, 0, 1, 0, 10, 16, 18, 120, 192, 2, 218, 0, 0, 128, 0>>

\* C19: UnmarshalACStatus returns exactly as many records as the repeat
\* count declares, in payload order, with acNumber = low nibble and power =
\* high nibble of byte 1, fan = low nibble and mode = high nibble of byte 2,
\* setpoint = (byte 3 + 100) / 10, turbo, bypass, spill, timer = bits 5, 4,
\* 3, 2 of byte 4, temperature = (bytes 5-6, big endian, minus 500) / 10
\* truncated toward zero for every raw value 0..65535, errorCode = byte 7;
\* the example payload yields {acNumber 0, power on, mode heat, fan low,
\* setpoint 22, temperature 23, errorCode 0}.
C19_ACStatusFields ==
    /\ AllTemperaturesTruncate
    /\ (msgFn = "UnmarshalACStatus") =>
        LET data == msgArg.val
            out == msgRet.out
        IN  /\ WellFormedStatus(data, SubMsgTypeACStatus)
                  => msgRet.err = "nil"
            /\ msgRet.err = "nil" =>
                  /\ Len(out) = RepeatCount(data)
                  /\ \A i \in 1..Len(out) :
                        /\ out[i].ACNumber = RecordByte(data, i, 1) % 16
                        /\ out[i].Power = RecordByte(data, i, 1) \div 16
                        /\ out[i].FanSpeed = RecordByte(data, i, 2) % 16
                        /\ out[i].Mode = RecordByte(data, i, 2) \div 16
                        /\ out[i].Setpoint
                              = (RecordByte(data, i, 3) + 100) \div 10
                        /\ out[i].Turbo = BitSet(RecordByte(data, i, 4), 5)
                        /\ out[i].Bypass = BitSet(RecordByte(data, i, 4), 4)
                        /\ out[i].Spill = BitSet(RecordByte(data, i, 4), 3)
                        /\ out[i].Timer = BitSet(RecordByte(data, i, 4), 2)
                        /\ TruncatedTenth(out[i].Temperature,
                                          RecordByte(data, i, 5) * 256
                                          + RecordByte(data, i, 6) - 500)
                        /\ out[i].ErrorCode = RecordByte(data, i, 7)
            /\ data = ExampleACStatus =>
                  out = <<[ACNumber |-> 0, Power |-> 1, Mode |-> 1,
                           FanSpeed |-> 2, Setpoint |-> 22,
                           Temperature |-> 23, Turbo |-> FALSE,
                           Bypass |-> FALSE, Spill |-> FALSE,
                           Timer |-> FALSE, ErrorCode |-> 0]>>

\* UnmarshalACStatus decoded a record whose raw temperature is below 500
\* and not a multiple of 10 away from it (495, which gives 0).
C19_ColdRecordDecoded ==
    /\ msgFn = "UnmarshalACStatus"
    /\ msgRet.err = "nil"
    /\ \E i \in 1..Len(msgRet.out) :
          /\ RecordByte(msgArg.val, i, 5) * 256
                + RecordByte(msgArg.val, i, 6) = 495
          /\ msgRet.out[i].Temperature = 0

\* The value of an optional field, 0 when it is absent.
FieldOr0(ptr) == IF ptr = Nil THEN 0 ELSE Deref(ptr)

\* C20: MarshalACControl of N records returns 8 + 4N bytes with sub type
\* 0x22, repeat count N and repeat length 4; for every record, whatever
\* integers its fields hold, byte 1 has the power code (1..5, else 0) in its
\* high nibble and the AC number in its low nibble, byte 2 has the mode in
\* its high nibble and the fan speed in its low nibble, neither field
\* altering the other's nibble, and bytes 3-4 are 0 when no setpoint is
\* given; records are in input order (AC 0 off, AC 1 on gives 0x20 and 0x31
\* at offsets 8 and 12).
C20_ACControlLayout ==
    (msgFn = "MarshalACControl") =>
        LET acs == msgArg.val
            n == Len(acs)
            out == msgRet.out
        IN  /\ msgRet.err = "nil"
            /\ Len(out) = 8 + 4 * n
            /\ SubSeq(out, 1, 8) = <<34, 0, 0, 0, n \div 256, n % 256, 0, 4>>
            /\ \A i \in 1..n :
                  /\ out[4 * i + 5] \div 16
                        = (IF FieldOr0(acs[i].Power) \in 1..5
                           THEN FieldOr0(acs[i].Power) ELSE 0)
                  /\ out[4 * i + 5] % 16 = acs[i].ACNumber % 16
                  /\ out[4 * i + 6] \div 16 = FieldOr0(acs[i].Mode) % 16
                  /\ out[4 * i + 6] % 16 = FieldOr0(acs[i].FanSpeed) % 16
                  /\ acs[i].Setpoint = Nil
                        => (out[4 * i + 7] = 0 /\ out[4 * i + 8] = 0)
            /\ acs = <<ACPower(0, 2), ACPower(1, 3)>>
                  => (out[9] = 32 /\ out[13] = 49)

\* C21: MarshalACControl encodes a setpoint change as byte 3 = 0x40 and
\* byte 4 = max(0, setpoint * 10 - 100): for every setpoint in 10..35 byte 4
\* is setpoint * 10 - 100, which fits in 8 bits, and the AC status rule
\* (raw + 100) / 10 applied to that byte gives the setpoint back; setpoint
\* 24 gives 0x8C.
C21_SetpointRoundTrip ==
    (msgFn = "MarshalACControl") =>
        \A i \in 1..Len(msgArg.val) :
            LET sp == msgArg.val[i].Setpoint
                b3 == msgRet.out[4 * i + 7]
                b4 == msgRet.out[4 * i + 8]
            IN  /\ (sp # Nil /\ Deref(sp) < 10) => (b3 = 64 /\ b4 = 0)
                /\ (sp # Nil /\ Deref(sp) \in 10..35) =>
                    /\ b3 = 64
                    /\ b4 = Deref(sp) * 10 - 100
                    /\ b4 \in 0..255
                    /\ ACStatusOf(<<0, 0, b4, 0, 0, 0, 0>>).Setpoint
                          = Deref(sp)
                    /\ Deref(sp) = 24 => b4 = 140

\* MarshalACControl encoded the largest setpoint of the domain, 35, as 250.
C21_SetpointEncoded ==
    /\ msgFn = "MarshalACControl"
    /\ msgArg.val = <<ACSetpoint(0, 35)>>
    /\ msgRet.out[11] = 64 /\ msgRet.out[12] = 250

\* The offsets of the {acNumber, length, payload} blocks that fill data from
\* offset o to its end, or <<-1>> when the blocks do not end with the buffer
\* or one of them is shorter than the 24 bytes of an ability record.
RECURSIVE AbilityBlockOffsets(_, _)
AbilityBlockOffsets(data, o) ==
    IF o = Len(data) THEN <<>>
    ELSE IF o + 2 > Len(data) \/ data[o + 2] < 24
            \/ o + 2 + data[o + 2] > Len(data) THEN <<-1>>
    ELSE LET rest == AbilityBlockOffsets(data, o + 2 + data[o + 2])
         IN  IF rest = <<-1>> THEN rest ELSE <<o>> \o rest

\* The offset of block i (from 1) of data: the first block follows the
\* marker, each other block follows the payload of the one before.
RECURSIVE NthBlockOffset(_, _)
NthBlockOffset(data, i) ==
    IF i = 1 THEN 2
    ELSE LET before == NthBlockOffset(data, i - 1)
         IN  before + 2 + data[before + 2]

\* name is the width bytes after data[o] cut at the first zero byte.
IsNameAt(name, data, o, width) ==
    \E n \in 0..width :
        /\ name = [k \in 1..n |-> data[o + k]]
        /\ \A k \in 1..n : data[o + k] # 0
        /\ n = width \/ data[o + n + 1] = 0

\* ability is what the block at offset o of data holds; bit b of a mask
\* byte, counted from 1 at the low end, is BitSet(byte, b).
IsAbilityAt(ability, data, o) ==
    LET modes == data[o + 21]
        fans == data[o + 22]
    IN  /\ ability.ACNumber = data[o + 1]
        /\ IsNameAt(ability.Name, data, o + 2, 16)
        /\ ability.StartGroup = data[o + 19]
        /\ ability.GroupCount = data[o + 20]
        /\ ability.CoolMode = BitSet(modes, 6)
        /\ ability.FanMode = BitSet(modes, 5)
        /\ ability.DryMode = BitSet(modes, 4)
        /\ ability.HeatMode = BitSet(modes, 3)
        /\ ability.AutoMode = BitSet(modes, 2)
        /\ ability.FanTurbo = BitSet(fans, 8)
        /\ ability.FanPowerful = BitSet(fans, 7)
        /\ ability.FanHigh = BitSet(fans, 6)
        /\ ability.FanMed = BitSet(fans, 5)
        /\ ability.FanLow = BitSet(fans, 4)
        /\ ability.FanQuiet = BitSet(fans, 3)
        /\ ability.FanAuto = BitSet(fans, 2)
        /\ ability.MinCoolSet = data[o + 23]
        /\ ability.MaxCoolSet = data[o + 24]
        /\ ability.MinHeatSet = data[o + 25]
        /\ ability.MaxHeatSet = data[o + 26]

GroupNameWholeRecords ==
    (msgFn = "UnmarshalGroupName" /\ msgRet.err = "nil") =>
        LET data == msgArg.val
        IN  /\ data[1] = 255 /\ data[2] = 18
            /\ Len(msgRet.out) = (Len(data) - 2) \div 9
            /\ \A i \in 1..Len(msgRet.out) :
                  LET o == 2 + 9 * (i - 1)
                  IN  /\ msgRet.out[i].GroupNumber = data[o + 1]
                      /\ IsNameAt(msgRet.out[i].Name, data, o + 1, 8)
            /\ data = ExampleGroupName =>
                  msgRet.out = <<[GroupNumber |-> 0,
                                  Name |-> <<71, 114, 111, 117, 112, 49>>]>>

\* C23: UnmarshalGroupName, after the FF 12 marker, returns one record per
\* 9-byte block in payload order (group number, then the 8 name bytes cut at
\* the first zero byte); a marker followed by no record yields an empty list
\* without error, and a truncated trailing record (1 to 8 bytes left) is
\* reported as ErrInvalidLength rather than silently omitted; the example
\* payload yields exactly {group 0, "Group1"}.
C23_GroupNameRecords ==
    /\ GroupNameWholeRecords
    /\ (msgFn = "UnmarshalGroupName") =>
          LET data == msgArg.val
              marked == Len(data) >= 2 /\ data[1] = 255 /\ data[2] = 18
          IN  /\ (marked /\ Len(data) = 2) =>
                    (msgRet.err = "nil" /\ msgRet.out = <<>>)
              /\ (marked /\ (Len(data) - 2) % 9 = 0) => msgRet.err = "nil"
              /\ (marked /\ (Len(data) - 2) % 9 # 0) =>
                    msgRet.err = "ErrInvalidLength"

\* What the documentation of an option accepts: ports 1..65535, durations
\* above zero, any logger.
OptionInRange(opt) ==
    CASE opt.name = "WithPort" -> opt.arg \in 1..65535
      [] opt.name \in {"WithConnectTimeout", "WithRequestTimeout"} ->
            opt.arg > 0
      [] opt.name = "WithLogger" -> TRUE

\* The configuration field an option sets.
OptionField(opt) ==
    CASE opt.name = "WithPort" -> "port"
      [] opt.name = "WithConnectTimeout" -> "connectTimeout"
      [] opt.name = "WithRequestTimeout" -> "requestTimeout"
      [] opt.name = "WithLogger" -> "logger"

\* NewClient returned the error of an option.
OptionRejected == newRet.err # "none" /\ newRet.err[1] = "invalid option"

\* C24: client options are validated at construction: WithPort accepts
\* exactly 1..65535, WithConnectTimeout and WithRequestTimeout exactly the
\* durations above zero; a rejected option returns an error and leaves the
\* configuration unchanged (defaults port 9200, connect 5 s, request 2 s, no
\* logger); NewClient given a rejected option returns the error before
\* dialing, with no connection and no reader; accepted options reach the
\* dial and the client.
C24_OptionsValidated ==
    /\ [](/\ (newPc = "options" /\ optIdx = 0) =>
                Deref(cfg) = [port |-> 9200, connectTimeout |-> 5000,
                              requestTimeout |-> 2000, logger |-> Nil]
          /\ OptionRejected =>
                /\ newRet.client = Nil
                /\ dialCalls = <<>> /\ readLoops = 0
                /\ newPc = "done"
                /\ ~OptionInRange(opts[optIdx])
                /\ \A i \in 1..(optIdx - 1) : OptionInRange(opts[i])
          /\ (dialCalls # <<>>) =>
                /\ \A i \in 1..Len(opts) : OptionInRange(opts[i])
                /\ dialCalls = <<[port |-> Deref(cfg).port,
                                  timeout |-> Deref(cfg).connectTimeout]>>
          /\ (newRet.client # Nil) =>
                /\ readLoops = 1
                /\ Deref(newRet.client).port = Deref(cfg).port
                /\ Deref(newRet.client).requestTimeout
                      = Deref(cfg).requestTimeout
                /\ Deref(newRet.client).logger = Deref(cfg).logger)
    /\ [][(newPc = "options" /\ optIdx' = optIdx + 1) =>
             LET opt == opts[optIdx']
             IN  IF OptionInRange(opt)
                 THEN /\ newPc' = "options" /\ newRet' = NoNewResult
                      /\ Deref(cfg') = [Deref(cfg) EXCEPT
                                           ![OptionField(opt)] = opt.arg]
                 ELSE /\ cfg' = cfg
                      /\ newPc' = "done"
                      /\ newRet'.client = Nil
                      /\ newRet'.err[1] = "invalid option"]_vars

\* NewClient applied an accepted request timeout, then returned the error
\* of WithPort(0); the configuration holds the timeout and the default port.
C24_SecondOptionRejected ==
    /\ opts = <<[name |-> "WithRequestTimeout", arg |-> 1],
                [name |-> "WithPort", arg |-> 0]>>
    /\ OptionRejected
    /\ newRet.err[2] = "port must be between 1 and 65535"
    /\ Deref(cfg).port = 9200 /\ Deref(cfg).requestTimeout = 1
    /\ dialCalls = <<>>

\* The calls in flight: sendRequest calls between the allocation of their id
\* and their return.
InFlight == {c \in Callers : pc[c] \in {"register", "write", "werr", "wait",
                                         "timedout"}}

\* Caller c is blocked in the select with nothing on its channel.
BlockedWaiting(c) == pc[c] = "wait" /\ respCh[c] = <<>>

\* The slot under caller c's id is the channel of c's call.
OwnsSlot(c) == msgID[c] \in DOMAIN pending /\ pending[msgID[c]] = callNo[c]

\* C25: at every instant the pending table holds at most one slot per id
\* value, and every request that is blocked waiting is the owner of the slot
\* stored under its id, provided no more requests are in flight at once than
\* there are id values.
C25_WaiterOwnsSlot ==
    Cardinality(InFlight) <= IdSpace =>
        /\ DOMAIN pending \subseteq 0..(IdSpace - 1)
        /\ \A c \in Callers : BlockedWaiting(c) => OwnsSlot(c)

\* C26: message ids come from a wrapping counter allocated under mutual
\* exclusion: the k-th allocation on a client yields (k - 1) mod IdSpace, no
\* two calls obtain their id from the same counter value, allocations less
\* than IdSpace apart have distinct ids, and the allocation IdSpace after
\* another has its id.
C26_IdsFromWrappingCounter ==
    /\ nextMsgID = calls % IdSpace
    /\ mu \in {Free} \cup CloseProcs
    /\ \A c \in Callers :
          callNo[c] # 0 => msgID[c] = (callNo[c] - 1) % IdSpace
    /\ \A c, u \in Callers :
          (c # u /\ callNo[c] # 0 /\ callNo[u] # 0) =>
              /\ callNo[c] # callNo[u]
              /\ (callNo[c] - callNo[u] \in 1..(IdSpace - 1)) =>
                    msgID[c] # msgID[u]
              /\ (callNo[c] - callNo[u] = IdSpace) => msgID[c] = msgID[u]

\* The first call and the call IdSpace allocations later are in flight
\* together, with the same id.
C26_CounterWrapped ==
    \E c, u \in Callers :
        /\ callNo[u] = 1 /\ callNo[c] = IdSpace + 1
        /\ c \in InFlight /\ u \in InFlight
        /\ msgID[c] = 0 /\ msgID[u] = 0
        /\ nextMsgID = 1

\* The call whose request the frame p answers: the device repeats the data
\* of the request, which is the number of the call.
CallAnswered(p) == p.Data[1]

\* Call n has timed out, has a frame on its channel or has returned.
TimedOutOrAnswered(n) ==
    \A c \in Callers :
        callNo[c] = n => (pc[c] \in {"timedout", "done"} \/ respCh[c] # <<>>)

\* C27: sendRequest registers its waiter in the pending table before it
\* writes the frame, so in every interleaving with the reader a response to
\* a written frame finds the slot of its request registered when the reader
\* looks it up, unless that request has already timed out or been answered.
C27_RegisteredBeforeWrite ==
    rpc = "locked" =>
        \/ /\ packet.MsgID \in DOMAIN pending
           /\ pending[packet.MsgID] = CallAnswered(packet)
        \/ TimedOutOrAnswered(CallAnswered(packet))

\* C28: reader dispatch.  When the reader has decoded a valid frame and the
\* pending table has a waiter under the frame's id, exactly that waiter
\* receives the frame and exactly that slot is removed, every other slot
\* unchanged; when no waiter is registered under the id the frame is
\* dropped, the pending table is unchanged and the connection stays open.
C28_DispatchEffect ==
    [][(rpc = "locked" /\ rpc' # "locked") =>
          LET id == packet.MsgID
          IN  /\ rpc' = "top"
              /\ isClosed' = isClosed /\ connCloses' = connCloses
              /\ IF id \in DOMAIN pending
                 THEN /\ DOMAIN pending' = (DOMAIN pending) \ {id}
                      /\ \A x \in DOMAIN pending' : pending'[x] = pending[x]
                      /\ \E c \in Callers :
                            /\ callNo[c] = pending[id]
                            /\ respCh'[c] = Append(respCh[c], packet)
                            /\ \A u \in Callers \ {c} :
                                  respCh'[u] = respCh[u]
                 ELSE pending' = pending /\ respCh' = respCh]_vars

\* A frame was handed to the waiter registered under its id and that slot
\* is gone, while the slot of the other waiter is still in place.
C28_DispatchedToWaiter ==
    \E c, u \in Callers :
        /\ rpc = "top"
        /\ pc[c] = "wait" /\ Len(respCh[c]) = 1
        /\ respCh[c][1].MsgID = msgID[c]
        /\ msgID[c] \notin DOMAIN pending
        /\ BlockedWaiting(u) /\ OwnsSlot(u)

\* Call n has returned the timeout error, after deleting its slot, and its
\* goroutine has not begun another call.
TimedOutAndDeregistered(n) ==
    \E c \in Callers :
        callNo[c] = n /\ pc[c] = "done" /\ result[c].kind = "Timeout"

\* C29: a response that arrives after its request has timed out and been
\* deregistered is dropped by the reader loop, so that no sendRequest call
\* returns it; and each sendRequest call receives at most one frame.
C29_LateResponseDropped ==
    /\ (rpc = "locked" /\ TimedOutAndDeregistered(CallAnswered(packet))) =>
          packet.MsgID \notin DOMAIN pending
    /\ \A c \in Callers :
          /\ Len(respCh[c]) <= 1
          /\ (result[c].kind = "ok" /\ pc[c] = "done") => respCh[c] = <<>>

\* The read the reader is blocked in cannot be completed: the stream ended,
\* or this side closed the socket, before the 8 header bytes or the
\* length + 2 following bytes came.
ReadCannotComplete ==
    \/ /\ rpc = "header"
       /\ connCloses > 0 \/ (eof /\ Len(inbound) < 8)
    \/ /\ rpc = "body"
       /\ connCloses > 0
          \/ (eof /\ Len(inbound) < HeaderDataLen(headerBuf) + 2)

\* C30: transport read failures are fatal to the connection: when the reader
\* cannot read the full 8-byte header (error, EOF or partial read) or the
\* full length + 2 following bytes, it closes the connection and stops, and
\* it dispatches no frame from the incomplete data.
C30_ReadFailureFatal ==
    /\ [][/\ (ReadCannotComplete /\ rpc' # rpc) =>
                (rpc' = "closing" /\ packet' = NoPacket /\ respCh' = respCh)
          /\ rpc \in {"closing", "stopped"} =>
                /\ rpc' \in {"closing", "stopped"}
                /\ packet' = NoPacket
                /\ \A c \in Callers : Len(respCh'[c]) <= Len(respCh[c])
                /\ rpc' = "stopped" => (isClosed' /\ connCloses' = 1)]_vars
    /\ ReadCannotComplete ~> (rpc = "stopped" /\ isClosed /\ connCloses = 1)

\* The stream ended inside the body of a frame: the reader had the header,
\* closed the connection and stopped, and the caller the frame was for got
\* nothing.
C30_StoppedOnPartialBody ==
    \E c \in Callers :
        /\ rpc = "stopped" /\ isClosed /\ connCloses = 1
        /\ eof /\ inbound = <<>> /\ headerBuf # <<>>
        /\ headerBuf[5] = msgID[c]
        /\ BlockedWaiting(c)

\* The reader has consumed everything the device sent and is between
\* frames.
ReaderCaughtUp ==
    inbound = <<>> /\ rpc \in {"top", "header"} /\ connCloses = 0

\* The reader's step left the connection and the waiters as they were.
FrameDropped ==
    /\ rpc' = "top"
    /\ pending' = pending /\ respCh' = respCh
    /\ isClosed' = isClosed /\ connCloses' = connCloses

\* The CRC stored at the end of frame differs from the one computed over
\* address..payload (taken from MaxLenTable for the frames encoded there).
ChecksumDiffers(frame) ==
    LET stored == Uint16At(frame, Len(frame) - 2)
    IN  IF /\ Len(frame) = MaxDataLen + 10
           /\ \E k \in MaxLenKeys : frame = MaxLenTable[k].buf
        THEN stored # MaxLenTable[MaxLenKey(frame[5], frame[6])].p.CRC
        ELSE stored # Checksum(SubSeq(frame, 3, Len(frame) - 2))

\* C31: per-frame errors on inbound data are local.  When the 8-byte header
\* window has wrong magic, or the complete frame fails its checksum, the
\* reader drops it, leaves the pending table unchanged, keeps the connection
\* open and goes on reading; after a wrong-magic window it resumes at the
\* byte that follows the window, and a valid frame aligned there is still
\* delivered to its waiter.
C31_FrameErrorsLocal ==
    /\ [][/\ (/\ rpc = "header" /\ rpc' # "header"
              /\ connCloses = 0 /\ Len(inbound) >= 8
              /\ inbound[1] # 85 \/ inbound[2] # 85) =>
                (FrameDropped /\ inbound' = SubSeq(inbound, 9, Len(inbound)))
          /\ (/\ rpc = "body" /\ rpc' # "body" /\ connCloses = 0
              /\ Len(inbound) >= HeaderDataLen(headerBuf) + 2
              /\ ChecksumDiffers(
                    headerBuf \o SubSeq(inbound, 1,
                                        HeaderDataLen(headerBuf) + 2))) =>
                (/\ FrameDropped
                 /\ inbound' = SubSeq(inbound, HeaderDataLen(headerBuf) + 3,
                                      Len(inbound)))]_vars
    /\ [](\A c \in Callers :
            (/\ ReaderCaughtUp /\ pc[c] = "wait"
             /\ callNo[c] \in DOMAIN noise
             /\ noise[callNo[c]] \in {"desync", "corrupt"}) =>
                (/\ respCh[c] # <<>>
                 /\ respCh[c][1].Data = <<callNo[c]>>
                 /\ respCh[c][1].MsgID = msgID[c]))

\* A caller has returned the answer the device sent right after a window
\* without the magic, and the connection is open.
C31_DeliveredAfterJunk ==
    \E c \in Callers :
        /\ pc[c] = "done" /\ result[c].kind = "ok"
        /\ result[c].pkt.Data = <<callNo[c]>>
        /\ noise[callNo[c]] = "desync"
        /\ ~isClosed /\ connCloses = 0

\* The reader gets an 8-byte window that has the magic.
WindowRead ==
    /\ rpc = "header" /\ rpc' # "header"
    /\ connCloses = 0 /\ Len(inbound) >= 8
    /\ inbound[1] = 85 /\ inbound[2] = 85

\* The number of payload bytes the window at the head of inbound declares.
WindowDeclared == inbound[7] * 256 + inbound[8]

\* C32: when a header window declares a length above MaxDataLen = 1024 the
\* reader reads none of that frame's remaining bytes, does not close the
\* connection, leaves the pending table unchanged and reads the next 8 bytes
\* of the stream as the next header window; a declared length of exactly
\* 1024 is accepted.
C32_OversizeSkipped ==
    /\ [][/\ (WindowRead /\ WindowDeclared > MaxDataLen) =>
                /\ FrameDropped
                /\ inbound' = SubSeq(inbound, 9, Len(inbound))
                /\ headerBuf' = headerBuf /\ packet' = packet
          /\ (WindowRead /\ WindowDeclared = MaxDataLen) =>
                /\ rpc' = "body"
                /\ headerBuf' = SubSeq(inbound, 1, 8)
                /\ inbound' = SubSeq(inbound, 9, Len(inbound))
                /\ pending' = pending /\ connCloses' = connCloses
          /\ (rpc' = "body" /\ rpc # "body") =>
                HeaderDataLen(headerBuf') <= MaxDataLen]_vars
    /\ [](\A c \in Callers :
            (/\ ReaderCaughtUp /\ pc[c] = "wait"
             /\ callNo[c] \in DOMAIN noise) =>
                /\ noise[callNo[c]] = "oversize" =>
                      (/\ respCh[c] # <<>>
                       /\ respCh[c][1].Data = <<callNo[c]>>)
                /\ noise[callNo[c]] = "maxlen" =>
                      (/\ respCh[c] # <<>>
                       /\ respCh[c][1].DataLen = MaxDataLen
                       /\ Len(respCh[c][1].Data) = MaxDataLen))

\* One caller has returned the answer that followed a header declaring more
\* than MaxDataLen bytes, another an answer of exactly MaxDataLen bytes.
C32_SkippedAndAccepted ==
    \E c, u \in Callers :
        /\ pc[c] = "done" /\ result[c].kind = "ok"
        /\ result[c].pkt.Data = <<callNo[c]>>
        /\ noise[callNo[c]] = "oversize"
        /\ pc[u] = "done" /\ result[u].kind = "ok"
        /\ result[u].pkt.DataLen = MaxDataLen
        /\ noise[callNo[u]] = "maxlen"
        /\ ~isClosed /\ connCloses = 0


\* What is left of a byte stream after the whole frames at its front are
\* taken off, each by the length its header declares; <<-1>> when a frame
\* at the front does not decode.
RECURSIVE StreamRest(_)
StreamRest(stream) ==
    IF Len(stream) < 8 THEN stream
    ELSE LET n == HeaderDataLen(SubSeq(stream, 1, 8)) + 10
         IN  IF Len(stream) < n THEN stream
             ELSE IF DecodeCached(SubSeq(stream, 1, n)).err = "nil"
                  THEN StreamRest(SubSeq(stream, n + 1, Len(stream)))
                  ELSE <<-1>>

\* The whole frames at the front of a byte stream.
RECURSIVE StreamFrames(_)
StreamFrames(stream) ==
    IF Len(stream) < 8 THEN <<>>
    ELSE LET n == HeaderDataLen(SubSeq(stream, 1, 8)) + 10
         IN  IF Len(stream) < n \/ DecodeCached(SubSeq(stream, 1, n)).err # "nil"
             THEN <<>>
             ELSE <<SubSeq(stream, 1, n)>>
                    \o StreamFrames(SubSeq(stream, n + 1, Len(stream)))

C34_LengthIsPayloadLength ==
    /\ step = "new" => pkt.DataLen = Len(pkt.Data)
    /\ (step = "decoded" /\ dec.err = "nil") =>
          dec.pkt.DataLen = Len(dec.pkt.Data)


\* C35: once Close has closed the client, the reader goroutine stops: a
\* read blocked on the socket fails, the reader's own call of Close gets
\* c.mu and returns, and readLoop returns; from then on the reader stays
\* stopped, holds no mutex and puts no frame on any waiter's channel.
C35_ReaderStopsAfterClose ==
    /\ isClosed ~> rpc = "stopped"
    /\ (rpc = "closing") ~> (rpc = "stopped" /\ closePc[Reader] = "idle")
    /\ [][rpc = "stopped" =>
            /\ rpc' = "stopped"
            /\ \A c \in Callers : Len(respCh'[c]) <= Len(respCh[c])]_vars
    /\ [](rpc = "stopped" => (mu # Reader /\ pendingMu # Reader))

\* A goroutine's Close closed the socket while the reader was blocked in a
\* read; the reader's read failed, its own Close returned nil, and it
\* stopped.
C35_ReaderStoppedByClose ==
    /\ rpc = "stopped"
    /\ isClosed /\ connCloses = 1
    /\ closeRet[Reader] = "nil"
    /\ \E q \in Closers : closeRet[q] = "conn.Close()"


\* The reader has c.pendingMu and its send, if it makes one, does not block.
ReaderCanDispatch ==
    /\ rpc = "locked"
    /\ DispatchKey(packet) \in DOMAIN pending =>
          \A c \in Holder(pending[DispatchKey(packet)]) :
             Len(respCh[c]) < RespChCap

\* C36: nothing stalls the connection.  A waiter's channel never holds more
\* than one frame; whoever holds c.pendingMu is the reader about to
\* dispatch, and its send does not block, so it goes on to unlock, whatever
\* requests are unanswered and whichever callers have stopped waiting;
\* whoever holds c.mu is inside Close and goes on to unlock; so a goroutine
\* waiting for either mutex is never waiting for a goroutine that waits.
C36_NoStall ==
    /\ \A c \in Callers : Len(respCh[c]) <= RespChCap
    /\ pendingMu # Free =>
          /\ pendingMu = Reader
          /\ ReaderCanDispatch
          /\ ENABLED Dispatch
    /\ rpc = "locked" => pendingMu = Reader
    /\ mu # Free =>
          /\ mu \in CloseProcs
          /\ closePc[mu] = "locked"
          /\ ENABLED CloseBody(mu)
    /\ (\E c \in Callers : pc[c] \in {"register", "werr", "timedout"}) =>
          \/ \E c \in Callers : ENABLED Register(c)
          \/ \E c \in Callers : ENABLED WriteErrCleanup(c)
          \/ \E c \in Callers : ENABLED TimeoutCleanup(c)
          \/ ENABLED Dispatch

\* The reader holds c.pendingMu with a frame for a call whose caller stopped
\* waiting, while another caller waits to register and a request is
\* unanswered.
C36_DispatchWhileOthersWait ==
    /\ rpc = "locked"
    /\ DispatchKey(packet) \in DOMAIN pending
    /\ \E c \in Holder(pending[DispatchKey(packet)]) : pc[c] = "timedout"
    /\ \E c \in Callers : pc[c] = "register"


\* Caller c leaves sendRequest through the timeout path or the write-error
\* path in this step.
CleansUp(c) == pc[c] \in {"timedout", "werr"} /\ pc'[c] = "done"

\* C37: the cleanup of a call that timed out or whose write failed removes
\* at most the slot that call registered: every slot that holds the channel
\* of another call is still there, unchanged, after the step.
C37_CleanupRemovesOwnSlotOnly ==
    [][\A c \in Callers :
          CleansUp(c) =>
             \A i \in DOMAIN pending :
                pending[i] # callNo[c] =>
                   (i \in DOMAIN pending' /\ pending'[i] = pending[i])]_vars


\* The checksum over address..payload of packet p (taken from MaxLenTable
\* for the packets encoded there).
RecomputedCrc(p) ==
    IF /\ Len(p.Data) = MaxDataLen
       /\ \E k \in MaxLenKeys : p = MaxLenTable[k].p
    THEN MaxLenTable[MaxLenKey(p.MsgID, p.MsgType)].p.CRC
    ELSE Checksum(EncodeCrcData(p))

\* Packet p passed every test of readLoop and Decode.
FullyValidated(p) ==
    /\ p # NoPacket
    /\ p.Header = HeaderBytes
    /\ p.DataLen <= MaxDataLen
    /\ p.DataLen = Len(p.Data)
    /\ p.CRC = RecomputedCrc(p)

\* C38: the frame the reader is about to dispatch, every frame on a waiter's
\* channel and every frame sendRequest returns starts with the magic 0x5555,
\* declares at most MaxDataLen payload bytes and exactly as many as it has,
\* and carries the checksum of its address..payload; a sendRequest that
\* returns no such frame returns no frame.
C38_DeliveredFramesValidated ==
    /\ rpc \in {"dispatch", "locked"} => FullyValidated(packet)
    /\ \A c \in Callers :
          /\ \A i \in 1..Len(respCh[c]) : FullyValidated(respCh[c][i])
          /\ result[c].kind = "ok" => FullyValidated(result[c].pkt)
          /\ result[c].kind # "ok" => result[c].pkt = NoPacket

\* A caller has returned the device's answer although the device first sent
\* that answer with a byte changed, and another caller has returned a frame
\* of MaxDataLen payload bytes.
C38_ValidAfterCorrupt ==
    /\ \E c \in Callers :
          /\ pc[c] = "done" /\ result[c].kind = "ok"
          /\ noise[callNo[c]] = "corrupt"
    /\ \E c \in Callers :
          /\ pc[c] = "done" /\ result[c].kind = "ok"
          /\ noise[callNo[c]] = "maxlen"


\* The context of caller c's call has ended: it was cancelled, or its own
\* deadline has passed, or it has no deadline and requestTimeout has passed
\* since the wait began.
CtxEnded(c) ==
    \/ call[c].canceled
    \/ call[c].deadline # Nil /\ elapsed[c] >= Deref(call[c].deadline)
    \/ call[c].deadline = Nil /\ elapsed[c] >= RequestTimeout

\* C39: in the sendRequest that takes a context, a call leaves its wait only
\* with a frame from its channel or through the context's case, and that
\* case is ready exactly when the context has ended: at the caller's
\* deadline when the context has one, whatever requestTimeout is, and
\* requestTimeout after the wait began when it has none.  The call that
\* takes the context's case returns no frame and an error that wraps
\* ctx.Err(), and the step that returns it leaves no slot for the call's id;
\* no slot holds the channel of a call that returned this error.
C39_WaitBoundedByContext ==
    /\ [][\A c \in Callers :
            /\ (pc[c] = "wait" /\ pc'[c] # "wait") =>
                  \/ respCh[c] # <<>> /\ result'[c].kind = "ok"
                  \/ CtxEnded(c) /\ pc'[c] = "ctxdone"
            /\ (pc[c] = "ctxdone" /\ pc'[c] # "ctxdone") =>
                  /\ result'[c].kind = "request canceled"
                  /\ result'[c].pkt = NoPacket
                  /\ result'[c].wraps =
                        IF call[c].canceled THEN "context canceled"
                        ELSE "context deadline exceeded"
                  /\ msgID[c] \notin DOMAIN pending'
                  /\ pc'[c] = "done"]_vars
    /\ [](\A c \in Callers :
            /\ pc[c] = "wait" => (CtxEnded(c) <=> ENABLED CtxDone(c))
            /\ (pc[c] = "done" /\ result[c].kind = "request canceled") =>
                  \A i \in DOMAIN pending : pending[i] # callNo[c])

\* One call whose context had a deadline later than requestTimeout waited
\* past requestTimeout and returned "deadline exceeded" at its deadline, its
\* slot gone; another, whose context had no deadline, returned it
\* requestTimeout after its wait began.
C39_EndedAtOwnDeadline ==
    \E c, d \in Callers :
        /\ pc[c] = "done" /\ result[c].kind = "request canceled"
        /\ result[c].wraps = "context deadline exceeded"
        /\ call[c].deadline = Ptr(RequestTimeout + 1)
        /\ elapsed[c] = RequestTimeout + 1
        /\ msgID[c] \notin DOMAIN pending
        /\ pc[d] = "done" /\ result[d].kind = "request canceled"
        /\ result[d].wraps = "context deadline exceeded"
        /\ call[d].deadline = Nil
        /\ elapsed[d] = RequestTimeout


\* C40: Discover returns; every scan goroutine it started ends, none stays
\* blocked in the send of its result, whether Discover received every
\* result or stopped collecting because the context ended; and the list it
\* returns holds only addresses whose dial succeeded.
C40_DiscoverTerminates ==
    /\ <>DiscReturned
    /\ <>[](\A t \in Scanners : scanPc[t] \in {"none", "done"})
    /\ [](discPc = "returned" =>
            \A i \in 1..Len(discResults) : dialOk[discResults[i]])

=============================================================================
